---- MODULE Spec2Model ----
(***************************************************************************)
(* The tiered memory engine of Grace: the hash-chained audit trail         *)
(* (main/memory_anchor_auditor.py), the sovereign memory with its          *)
(* ingestion pipeline, memory gate and instance management                 *)
(* (central_intelligance/storage/sovereign_memory.py) and the fusion vault *)
(* (main/memory_fusion_vault.py).                                          *)
(*                                                                         *)
(* Conventions.  Python's None is the empty tuple <<>>.  sha256 is an      *)
(* ideal (collision-free) hash: the digest of x is the tagged tuple        *)
(* <<"sha256", x>>, and json.dumps of a dict is the tuple of its values in *)
(* insertion order.  Scores are fixed-point thousandths (0.7 is 700); the  *)
(* risk score is a number of matched keywords out of 4 and the             *)
(* compatibility a number of quarters, for which the float arithmetic of   *)
(* the code and the exact arithmetic agree on every comparison made.       *)
(* Degradation rates are in units of 0.00001 (0.1 is 10000), times are     *)
(* seconds of the wall clock.                                              *)
(*                                                                         *)
(* Names the files use without importing them (time and json in the        *)
(* auditor, nx in the sovereign memory) are taken to be bound to the       *)
(* modules they name.  MemorySandbox._check_compatibility and              *)
(* MemorySandbox._estimate_performance are called but defined nowhere in   *)
(* the repository: they are the external compatibility scorer, which       *)
(* answers a value in [0,1] or raises, and the external performance        *)
(* estimator, which answers an estimate nothing in the pipeline reads, or   *)
(* raises.  So are SovereignMemory._retrieve_memory, _get_memory_by_id and *)
(* _should_link, which are modelled from what the specification says of    *)
(* them.                                                                   *)
(***************************************************************************)
EXTENDS Integers, Sequences, FiniteSets, TLC

VARIABLES
    \* ---- AnchorAuditor (memory_anchor_auditor.py) ----
    audit_file,       \* the lines written to the audit file, oldest first
    last_hash,        \* AnchorAuditor.last_hash
    clock,            \* time.time()
    apc,              \* per thread: position inside log_anchor_change
    aentry,           \* per thread: the local variable entry
    \* ---- SovereignMemory (sovereign_memory.py) ----
    ingestion_queue,  \* SovereignMemory.ingestion_queue (a deque): the dicts
                      \* of the items whose workers are followed
    queue_state,      \* the deque's mutation counter (deque->state), which
                      \* is the number of appends, one per ingest call
    lock,             \* owner of SovereignMemory.lock, 0 when free
    wpc,              \* per ingestion thread: position in _process_ingestion
    wlocal,           \* per ingestion thread: its local variables
    lightning_cache,  \* SovereignMemory.lightning_cache: mem_id -> node
    fusion_archive,   \* SovereignMemory.fusion_archive: mem_id -> node
    uuid_ctr,         \* number of mem ids handed out by uuid4 so far
    semantic_tree,    \* SovereignMemory.semantic_tree: nodes and edges
    request_log,      \* SovereignMemory.request_log (a deque)
    rpc,              \* per gate caller: position in request_memory
    rlocal,           \* per gate caller: its request and local variables
    active_instances, \* SovereignMemory.active_instances: instance_id -> view
    inst_ctr,         \* number of instance ids handed out by uuid4 so far
    inst_call,        \* per thread: its spawn and collapse calls and their returns
    \* ---- FusionVault (memory_fusion_vault.py) ----
    anchors,          \* the anchors table: id -> row
    vault_call,       \* the anchor calls made so far, the last one and how it ended
    \* ---- LightningStore (memory_lightening_store.py) ----
    redis,            \* the keys lightning:heap, lightning:data, lightning:meta
    decay,            \* the decay thread: started, alive, where it is in its
                      \* pass, and the passes it completed
    lclient,          \* per client thread: position inside push or get
    \* ---- DecaySandbox (memory_decay_sandbox.py) ----
    pending_anchors,  \* DecaySandbox.pending_anchors
    sandbox_out,      \* the ids of the anchors pending, and the last analyze_anchors
                      \* call: its inputs and how it ended
    \* ---- learning_loop.py, module level ----
    script,           \* how far the script got, and the alerts it sent
    \* ---- threads calling SovereignMemory.store ----
    spc,              \* per thread: position in store
    slocal,           \* per thread: the arguments and the node built
    \* ---- the background loops and their stop signal ----
    loops,            \* LightningStore.running, the stop call, the turns of the monitor
    \* ---- KnowledgeGraph (knowledge.py) ----
    kg,               \* the nodes and the edges of the graph
    \* ---- DecaySandbox of the learning loop (decay_sandbox.py) ----
    lsb,              \* current batch, context buffer, decisions and events
    \* ---- FeedbackLogger (feedback_log.py) ----
    fb,               \* buffer, lock, emitted entries, the callers' positions
    \* ---- MemoryOrchestrator ----
    orch              \* the stress-test passes made, and what the last one found stale

auditVars  == <<audit_file, last_hash, clock, apc, aentry>>
ingestVars == <<ingestion_queue, queue_state, lock, wpc, wlocal,
                lightning_cache, fusion_archive, uuid_ctr>>
engineVars == <<semantic_tree, request_log, rpc, rlocal,
                active_instances, inst_ctr, inst_call>>
vaultVars  == <<anchors, vault_call>>
extraVars  == <<loops, kg, lsb, fb, orch>>
loopVars   == <<redis, decay, lclient, pending_anchors, sandbox_out, script, extraVars>>
storeVars  == <<spc, slocal>>
vars       == <<audit_file, last_hash, clock, apc, aentry,
                ingestion_queue, queue_state, lock, wpc, wlocal,
                lightning_cache, fusion_archive, uuid_ctr,
                semantic_tree, request_log, rpc, rlocal,
                active_instances, inst_ctr, inst_call,
                anchors, vault_call,
                redis, decay, lclient, pending_anchors, sandbox_out, script,
                loops, kg, lsb, fb, orch,
                spc, slocal>>

\* ---------------------------------------------------------------- bounds
MaxLog     == 3     \* audit entries appended in one run
MaxClock   == 2     \* ticks of the wall clock in one run
NumThreads == 2     \* threads appending to the audit log concurrently
MaxItems   == 2     \* ingestion items whose workers are followed
MaxCalls   == 10001 \* ingest calls of a producer in one run

None == <<>>

\* hashlib.sha256(x).hexdigest(), as an ideal hash
sha256(x) == <<"sha256", x>>

\* =====================================================================
\*  AnchorAuditor
\* =====================================================================
AuditActions == {"anchor", "revise"}
AuditData    == {"d1", "d2"}
Threads      == 1..NumThreads

\* json.dumps(entry) of the four fields set at lines 15-20
EntryStr(ts, action, data, prev) == <<ts, action, data, prev>>

\* lines 15-23: the entry, with entry_hash computed from its other fields
BuildEntry(ts, action, data, prev) ==
    [timestamp     |-> ts,
     action        |-> action,
     data          |-> data,
     previous_hash |-> prev,
     entry_hash    |-> sha256(EntryStr(ts, action, data, prev))]

\* line 26 drops the assignment: the chain head is never advanced
HeadAfterAppendStale(entry, head) == head

\* line 26: self.last_hash = entry_hash
HeadAfterAppend(entry, head) == entry.entry_hash

\* verify_chain(): "Implementation left for blockchain integration"
verify_chain(file) == TRUE

\* AnchorAuditor(audit_path) on a path that holds no file yet: lines 10-11
AuditInit ==
    /\ audit_file = <<>>
    /\ last_hash = None
    /\ clock = 0
    /\ apc = [t \in Threads |-> "idle"]
    /\ aentry = [t \in Threads |-> None]

\* time passes between calls
Tick ==
    /\ clock < MaxClock
    /\ clock' = clock + 1
    /\ UNCHANGED <<audit_file, last_hash, apc, aentry>>
    /\ UNCHANGED ingestVars
    /\ UNCHANGED <<engineVars, vaultVars, loopVars, storeVars>>

\* AnchorAuditor(audit_path) again on the path of the log, by a process that
\* starts anew: line 10 opens the file with mode "a", which keeps what an
\* earlier auditor wrote, and line 11 resets the chain head to None
AuditReopen ==
    /\ last_hash # None
    /\ \A t \in Threads : apc[t] = "idle"
    /\ last_hash' = None
    /\ UNCHANGED <<audit_file, clock, apc, aentry>>
    /\ UNCHANGED ingestVars
    /\ UNCHANGED <<engineVars, vaultVars, loopVars, storeVars>>

\* log_anchor_change(action, data), run to completion by a single caller
LogAnchorChange ==
    /\ Len(audit_file) < MaxLog
    /\ \E a \in AuditActions, d \in AuditData :
         LET entry == BuildEntry(clock, a, d, last_hash) IN
           /\ audit_file' = Append(audit_file, entry)
           /\ last_hash' = HeadAfterAppend(entry, last_hash)
    /\ UNCHANGED <<clock, apc, aentry>>
    /\ UNCHANGED ingestVars
    /\ UNCHANGED <<engineVars, vaultVars, loopVars, storeVars>>

\* ---- the same method, one thread per call, interleaved at its statements
\* lines 15-23: read self.last_hash, build the entry and its hash
LACBuild(t) ==
    /\ apc[t] = "idle"
    /\ Len(audit_file) + Cardinality({u \in Threads : apc[u] # "idle"}) < MaxLog
    /\ \E a \in AuditActions, d \in AuditData :
         aentry' = [aentry EXCEPT ![t] = BuildEntry(clock, a, d, last_hash)]
    /\ apc' = [apc EXCEPT ![t] = "built"]
    /\ UNCHANGED <<audit_file, last_hash, clock>>
    /\ UNCHANGED ingestVars
    /\ UNCHANGED <<engineVars, vaultVars, loopVars, storeVars>>

\* line 25: self.audit_file.write(...)
LACWrite(t) ==
    /\ apc[t] = "built"
    /\ audit_file' = Append(audit_file, aentry[t])
    /\ apc' = [apc EXCEPT ![t] = "written"]
    /\ UNCHANGED <<last_hash, clock, aentry>>
    /\ UNCHANGED ingestVars
    /\ UNCHANGED <<engineVars, vaultVars, loopVars, storeVars>>

\* line 26: self.last_hash = entry_hash; the call returns
LACSetHead(t) ==
    /\ apc[t] = "written"
    /\ last_hash' = HeadAfterAppend(aentry[t], last_hash)
    /\ apc' = [apc EXCEPT ![t] = "idle"]
    /\ aentry' = [aentry EXCEPT ![t] = None]
    /\ UNCHANGED <<audit_file, clock>>
    /\ UNCHANGED ingestVars
    /\ UNCHANGED <<engineVars, vaultVars, loopVars, storeVars>>

\* =====================================================================
\*  SovereignMemory: the ingestion pipeline
\* =====================================================================
Items == 1..MaxItems

\* A payload is known by what the scorers see in it: kw, the number of risk
\* keywords ('attack', 'bias', 'exploit', 'sensitive') its JSON text holds,
\* and cq, the compatibility the sandbox reports for it, in quarters.
RiskCounts     == {0, 4}
CompatQuarters == {0, 1, 3, 4}
\* len, the length of the payload's JSON text, for payloads from a stream:
\* {"text": "hi"} holds no keyword, {"t": "attack bias exploit sensitive"}
\* holds the four
StreamLens(kw) == IF kw = 0 THEN {14} ELSE {38}

QueueMaxLen == 10000

Some(x) == <<x>>

Queued         == <<"queued">>
Processing     == <<"processing">>
Completed      == <<"completed">>
Failed(reason) == <<"failed", reason>>

\* json.dumps(data)
JsonDumps(data) == <<"json", data>>

\* len(json.dumps(data))
JsonLen(data) == data.len

\* what the three keys of _refactor_memory add to the JSON text:
\* , "_refactored": true, "_anomaly": "low_performance", "_original_hash": "<64 hex>"
RefactorTagLen == 138

\* collections.deque.append with maxlen: a full deque drops its oldest item
DequeAppend(q, x) ==
    IF Len(q) = QueueMaxLen THEN Append(Tail(q), x) ELSE Append(q, x)

\* MemorySandbox._calculate_risk: matched keywords / 4, in thousandths
CalculateRisk(data) == (data.kw * 1000) \div 4

\* MemorySandbox._check_compatibility: the external compatibility scorer,
\* a value in [0,1], in thousandths
CheckCompatibility(data) == (data.cq * 1000) \div 4

\* MemorySandbox._estimate_performance: the external performance estimator;
\* its answer for a payload is kept as it is, no step of the pipeline reads it
EstimatePerformance(data) == <<"performance_estimate", data.kw, data.cq>>

\* MemorySandbox.evaluate, lines 323-328
SandboxEvaluate(data) ==
    [risk_score           |-> CalculateRisk(data),
     compatibility        |-> CheckCompatibility(data),
     performance_estimate |-> EstimatePerformance(data)]

\* PerformanceLedger.score
score(data, sandbox_result) ==
    LET risk_factor   == 1000 - sandbox_result.risk_score
        compat_factor == sandbox_result.compatibility
    IN  (risk_factor * 600) \div 1000 + (compat_factor * 400) \div 1000

\* the anomaly threshold read as "at most 0.3"
checkInclusive(data, perf_score) ==
    IF perf_score <= 300
    THEN Some([type |-> "low_performance", severity |-> 1000 - perf_score,
               deprecate_prior |-> None])
    ELSE None

\* DegradationMonitor.check
check(data, perf_score) ==
    IF perf_score < 300
    THEN Some([type |-> "low_performance", severity |-> 1000 - perf_score,
               deprecate_prior |-> None])
    ELSE None

\* SovereignMemory._refactor_memory: {**data, '_refactored', '_anomaly', '_original_hash'}
RefactorMemory(data, anomaly) ==
    [kw            |-> data.kw,
     cq            |-> data.cq,
     len           |-> data.len + RefactorTagLen,
     refactored    |-> TRUE,
     anomaly       |-> anomaly.type,
     original_hash |-> sha256(JsonDumps(data))]

\* the tier threshold read as "at least 0.7"
PlacementTierInclusive(perf_score) == IF perf_score >= 700 THEN "fusion" ELSE "lightning"

\* line 173: MemoryTier.FUSION if perf_score > 0.7 else MemoryTier.LIGHTNING
PlacementTier(perf_score) == IF perf_score > 700 THEN "fusion" ELSE "lightning"

\* SovereignMemory._calculate_degradation_rate: lines 297-305
CalculateDegradationRate(data, tier) ==
    LET complexity == JsonLen(data)  \* in thousandths of a KB
        rate       == 10000 + complexity
    IN  IF tier = "lightning" THEN (IF rate < 50000 THEN rate ELSE 50000)
        ELSE IF tier = "fusion" THEN 1000
        ELSE 5000

\* lines 88-97: the MemoryNode built by store at time now
MemoryNode(mem_id, data, tier, trust_score, now) ==
    [id |-> mem_id, content |-> data, tier |-> tier,
     creation_time |-> now, last_accessed |-> now,
     trust_score |-> trust_score, dependencies |-> <<>>,
     degradation_rate |-> CalculateDegradationRate(data, tier)]

\* lines 99-103: the dict that store writes for a tier
PutNode(cache, node) ==
    [k \in DOMAIN cache \cup {node.id} |-> IF k = node.id THEN node ELSE cache[k]]

\* position of the item with this id in the queue, 0 if it is not there
QueuePos(id) ==
    IF \E p \in 1..Len(ingestion_queue) : ingestion_queue[p].id = id
    THEN CHOOSE p \in 1..Len(ingestion_queue) : ingestion_queue[p].id = id
    ELSE 0

\* item[field] = value, seen in the queue while the deque still holds the
\* dict of item id
SetItem(id, field, value) ==
    IF QueuePos(id) = 0 THEN ingestion_queue
    ELSE [ingestion_queue EXCEPT ![QueuePos(id)] = [@ EXCEPT ![field] = value]]

\* the same assignment, seen through the worker's local variable item, which
\* refers to the dict whether or not the deque still holds it
SetLocalItem(id, field, value) ==
    [wlocal EXCEPT ![id].item = Some([@[1] EXCEPT ![field] = value])]

Ingested == {i \in Items : wpc[i] # "none"}

IngestInit ==
    /\ ingestion_queue = <<>>
    /\ queue_state = 0
    /\ lock = 0
    /\ wpc = [i \in Items |-> "none"]
    /\ wlocal = [i \in Items |-> None]
    /\ lightning_cache = <<>>
    /\ fusion_archive = <<>>
    /\ uuid_ctr = 0

\* The ingest calls of a run are numbered and an item is known by the number
\* of its call. The dicts of the first MaxItems calls are kept one by one in
\* ingestion_queue and their worker threads in wpc and wlocal. A producer
\* may go on calling ingest: the dicts of these later calls lie in the deque
\* behind the others, and their worker threads are started and wait for the
\* scheduler to the end of the run, so every such dict stays as ingest
\* appended it. The deque holds the last QueueMaxLen dicts appended, so the
\* later dicts it holds are those of the calls MaxItems + 1 .. queue_state,
\* the oldest dropped first; LaterInDeque is their number.
LaterInDeque ==
    LET later == IF queue_state > MaxItems THEN queue_state - MaxItems ELSE 0
    IN  IF later > QueueMaxLen THEN QueueMaxLen ELSE later

\* len(self.ingestion_queue)
DequeLen == Len(ingestion_queue) + LaterInDeque

\* ingest(data_stream, source): lines 121-141, one of the first MaxItems calls
Ingest(risks, compats) ==
    /\ Cardinality(Ingested) < MaxItems
    /\ LET i == Cardinality(Ingested) + 1 IN
       \E k \in risks, c \in compats : \E n \in StreamLens(k) :
         /\ ingestion_queue' = DequeAppend(ingestion_queue,
                [id |-> i, data |-> [kw |-> k, cq |-> c, len |-> n], source |-> "stream",
                 status |-> Queued, memory_id |-> 0])
         /\ queue_state' = queue_state + 1
         /\ wpc' = [wpc EXCEPT ![i] = "start"]
         /\ wlocal' = [wlocal EXCEPT ![i] =
                [it_state |-> 0, it_counter |-> 0, it_idx |-> 0,
                 perf_score |-> 0, anomaly |-> None, mem_id |-> 0, node |-> None,
                 item |-> None]]
    /\ UNCHANGED <<lock, lightning_cache, fusion_archive, uuid_ctr>>
    /\ UNCHANGED auditVars
    /\ UNCHANGED <<engineVars, vaultVars, loopVars, storeVars>>

\* ingest(data_stream, source): lines 121-141, a call after the first
\* MaxItems: the dict is appended behind all others, a full deque dropping
\* its oldest dict, which is the oldest of ingestion_queue while that holds
\* any; the worker thread of the item is started (lines 135-139)
IngestLater ==
    /\ Cardinality(Ingested) = MaxItems
    /\ queue_state < MaxCalls
    /\ ingestion_queue' = IF DequeLen = QueueMaxLen /\ ingestion_queue # <<>>
                          THEN Tail(ingestion_queue) ELSE ingestion_queue
    /\ queue_state' = queue_state + 1
    /\ UNCHANGED <<lock, wpc, wlocal, lightning_cache, fusion_archive, uuid_ctr>>
    /\ UNCHANGED auditVars
    /\ UNCHANGED <<engineVars, vaultVars, loopVars, storeVars>>

\* line 145-146: take self.lock, create the iterator over the deque
ScanBegin(i) ==
    /\ wpc[i] = "start"
    /\ lock = 0
    /\ lock' = i
    /\ wlocal' = [wlocal EXCEPT ![i].it_state = queue_state,
                                ![i].it_counter = DequeLen,
                                ![i].it_idx = 1]
    /\ wpc' = [wpc EXCEPT ![i] = "scan"]
    /\ UNCHANGED <<ingestion_queue, queue_state, lightning_cache, fusion_archive, uuid_ctr>>
    /\ UNCHANGED auditVars
    /\ UNCHANGED <<engineVars, vaultVars, loopVars, storeVars>>

\* line 146-147: one step of next(i for i in self.ingestion_queue if ...).
\* The deque iterator raises RuntimeError when the deque was appended to since
\* the iterator was made, next() raises StopIteration when it is exhausted;
\* both leave the with block (the lock is released) and end the thread.
\* The iterator is gone once next() has answered or raised.
ScanNext(i) ==
    /\ wpc[i] = "scan"
    /\ IF wlocal[i].it_counter = 0 \/ wlocal[i].it_state # queue_state
       THEN /\ lock' = 0
            /\ wpc' = [wpc EXCEPT ![i] = "crashed"]
            /\ wlocal' = [wlocal EXCEPT ![i].it_state = 0, ![i].it_counter = 0,
                                        ![i].it_idx = 0]
            /\ UNCHANGED ingestion_queue
       ELSE IF /\ wlocal[i].it_idx <= Len(ingestion_queue)
               /\ ingestion_queue[wlocal[i].it_idx].id = i
       THEN /\ ingestion_queue' = SetItem(i, "status", Processing)
            /\ lock' = 0
            /\ wpc' = [wpc EXCEPT ![i] = "try"]
            /\ wlocal' = [wlocal EXCEPT
                   ![i].it_state = 0, ![i].it_counter = 0, ![i].it_idx = 0,
                   ![i].item =
                   Some([ingestion_queue[wlocal[i].it_idx] EXCEPT !.status = Processing])]
       ELSE /\ wlocal' = [wlocal EXCEPT ![i].it_idx = @ + 1,
                                        ![i].it_counter = @ - 1]
            /\ UNCHANGED <<ingestion_queue, lock, wpc>>
    /\ UNCHANGED <<queue_state, lightning_cache, fusion_archive, uuid_ctr>>
    /\ UNCHANGED auditVars
    /\ UNCHANGED <<engineVars, vaultVars, loopVars, storeVars>>

\* lines 150-168 and 184-185: sandbox, score, anomaly check, refactor; an
\* exception of a sandbox collaborator (the compatibility scorer or the
\* performance estimator) is caught and fails the item
Evaluate(i) ==
    /\ wpc[i] = "try"
    /\ LET item == wlocal[i].item[1] IN
       \E outcome \in {"ok", "raise"} :
         IF outcome = "raise"
         THEN /\ ingestion_queue' = SetItem(i, "status", Failed("sandbox_error"))
              /\ wpc' = [wpc EXCEPT ![i] = "done"]
              /\ wlocal' = SetLocalItem(i, "status", Failed("sandbox_error"))
         ELSE LET sandbox_result == SandboxEvaluate(item.data)
                  perf_score     == score(item.data, sandbox_result)
                  anomaly        == check(item.data, perf_score)
              IN /\ ingestion_queue' =
                       IF anomaly # None
                       THEN SetItem(i, "data", RefactorMemory(item.data, anomaly[1]))
                       ELSE ingestion_queue
                 /\ wlocal' = [wlocal EXCEPT
                        ![i].perf_score = perf_score,
                        ![i].anomaly = anomaly,
                        ![i].item = IF anomaly # None
                                    THEN Some([item EXCEPT !.data =
                                             RefactorMemory(item.data, anomaly[1])])
                                    ELSE @]
                 /\ wpc' = [wpc EXCEPT ![i] = "store"]
    /\ UNCHANGED <<queue_state, lock, lightning_cache, fusion_archive, uuid_ctr>>
    /\ UNCHANGED auditVars
    /\ UNCHANGED <<engineVars, vaultVars, loopVars, storeVars>>

\* lines 171-175 with store, lines 87-97: a fresh mem id is drawn and the node
\* is built from the item, outside self.lock
StoreBuild(i) ==
    /\ wpc[i] = "store"
    /\ LET item   == wlocal[i].item[1]
           mem_id == uuid_ctr + 1
           tier   == PlacementTier(wlocal[i].perf_score)
       IN /\ uuid_ctr' = mem_id
          /\ wlocal' = [wlocal EXCEPT ![i].node =
                 Some(MemoryNode(mem_id, item.data, tier, wlocal[i].perf_score, clock))]
    /\ wpc' = [wpc EXCEPT ![i] = "store_lock"]
    /\ UNCHANGED <<ingestion_queue, queue_state, lock, lightning_cache, fusion_archive>>
    /\ UNCHANGED auditVars
    /\ UNCHANGED <<engineVars, vaultVars, loopVars, storeVars>>

\* store, lines 99-107: self.lock is taken, the node is written to the dict of
\* its tier, the lock is released and the id returned into mem_id (line 171)
StoreStep(i) ==
    /\ wpc[i] = "store_lock"
    /\ lock = 0
    /\ LET node == wlocal[i].node[1]
       IN /\ lightning_cache' = IF node.tier = "lightning"
                                THEN PutNode(lightning_cache, node)
                                ELSE lightning_cache
          /\ fusion_archive' = IF node.tier = "fusion"
                               THEN PutNode(fusion_archive, node)
                               ELSE fusion_archive
          /\ wlocal' = [wlocal EXCEPT ![i].mem_id = node.id]
    /\ wpc' = [wpc EXCEPT ![i] = "mark"]
    /\ UNCHANGED <<ingestion_queue, queue_state, lock, uuid_ctr>>
    /\ UNCHANGED auditVars
    /\ UNCHANGED <<engineVars, vaultVars, loopVars, storeVars>>

\* lines 178-181: deprecate_prior is None, so nothing is flagged;
\* item['status'] = 'completed'
MarkCompleted(i) ==
    /\ wpc[i] = "mark"
    /\ ingestion_queue' = SetItem(i, "status", Completed)
    /\ wlocal' = SetLocalItem(i, "status", Completed)
    /\ wpc' = [wpc EXCEPT ![i] = "setid"]
    /\ UNCHANGED <<queue_state, lock, lightning_cache, fusion_archive, uuid_ctr>>
    /\ UNCHANGED auditVars
    /\ UNCHANGED <<engineVars, vaultVars, loopVars, storeVars>>

\* line 182 raises inside the try block: the handler overwrites the status
SetMemoryIdRaises(i) ==
    /\ wpc[i] = "setid"
    /\ ingestion_queue' = SetItem(i, "status", Failed("KeyError"))
    /\ wlocal' = SetLocalItem(i, "status", Failed("KeyError"))
    /\ wpc' = [wpc EXCEPT ![i] = "done"]
    /\ UNCHANGED <<queue_state, lock, lightning_cache, fusion_archive, uuid_ctr>>
    /\ UNCHANGED auditVars
    /\ UNCHANGED <<engineVars, vaultVars, loopVars, storeVars>>

\* line 182: item['memory_id'] = mem_id; the thread ends
SetMemoryId(i) ==
    /\ wpc[i] = "setid"
    /\ ingestion_queue' = SetItem(i, "memory_id", wlocal[i].mem_id)
    /\ wlocal' = SetLocalItem(i, "memory_id", wlocal[i].mem_id)
    /\ wpc' = [wpc EXCEPT ![i] = "done"]
    /\ UNCHANGED <<queue_state, lock, lightning_cache, fusion_archive, uuid_ctr>>
    /\ UNCHANGED auditVars
    /\ UNCHANGED <<engineVars, vaultVars, loopVars, storeVars>>

\* =====================================================================
\*  SovereignMemory: direct store and the memory gate
\* =====================================================================
MaxStores   == 1     \* direct store calls in one run
NumCallers  == 2     \* threads that call request_memory, once each

Callers      == 1..NumCallers
Tiers        == {"lightning", "fusion", "tree"}
AccessLevels == {"read", "write", "derive"}
Requesters   == {"trusted_ops", "guest"}
Intents      == {"personalize", "audit"}
\* payloads of direct store calls, known by the length of their JSON text
StorePayloads == {[len |-> 14], [len |-> 45000]}
TrustInputs   == {800}
\* trust_score is a float the caller is free to choose
TrustFloats   == {0 - 200, 800, 1500}

RequestLogMaxLen == 100000
OneHour == 3600

EmptyDict == [k \in {} |-> 0]

\* every MemoryRequest a caller may make
Requests ==
    [requester : Requesters, intent : Intents, context : {"ctx"},
     requested_tier : Tiers, access_type : AccessLevels, justification : {"why"}]

\* the requests of the callers that run concurrently
ConcRequests ==
    {r \in Requests : r.intent = "audit" /\ r.requested_tier = "lightning"
                      /\ r.access_type \in {"read", "write"}}

\* request.requester.startswith('trusted_')
StartsWithTrusted(requester) == requester \in {"trusted_ops"}

\* write access granted to everyone
AccessPolicyEvaluateOpen(request, now) ==
    IF request.access_type = "write"
    THEN [granted |-> TRUE, rejection_reason |-> None, scope_limits |-> None]
    ELSE [granted |-> TRUE, rejection_reason |-> None,
          scope_limits |-> Some([valid_until |-> now + OneHour,
                                 usage_scope |-> request.intent])]

\* AccessPolicyEngine.evaluate: lines 347-362
AccessPolicyEvaluate(request, now) ==
    IF request.access_type = "write"
    THEN [granted |-> StartsWithTrusted(request.requester),
          rejection_reason |-> IF ~StartsWithTrusted(request.requester)
                               THEN Some("Write access restricted") ELSE None,
          scope_limits |-> None]
    ELSE [granted |-> TRUE, rejection_reason |-> None,
          scope_limits |-> Some([valid_until |-> now + OneHour,
                                 usage_scope |-> request.intent])]

\* DegradationMonitor.find_degraded, lines 378-380
FindDegraded == EmptyDict

\* the nodes of a tier, mem_id -> node
TierStore(tier) ==
    IF tier = "lightning" THEN lightning_cache
    ELSE IF tier = "fusion" THEN fusion_archive
    ELSE semantic_tree.nodes

\* SovereignMemory._retrieve_memory(tier, context): the ids of the nodes of the
\* tier that the context may select; none means NotFound
RetrieveMemory(tier, context) == DOMAIN TierStore(tier)

\* SovereignMemory._get_memory_by_id: the tier holding the node, None if none does
GetMemoryById(mem_id) ==
    IF mem_id \in DOMAIN lightning_cache THEN Some("lightning")
    ELSE IF mem_id \in DOMAIN fusion_archive THEN Some("fusion")
    ELSE IF mem_id \in DOMAIN semantic_tree.nodes THEN Some("tree")
    ELSE None

\* _store_in_semantic_tree: lines 109-118; links are the existing nodes that
\* _should_link accepts
StoreInSemanticTree(tree, node, links) ==
    [nodes |-> PutNode(tree.nodes, node),
     edges |-> tree.edges \cup {<<node.id, e>> : e \in links \ {node.id}}]

\* the node written to the lightning cache as well, whatever its tier
StoreWritesAlsoLightning(node, links) ==
    /\ lightning_cache' = PutNode(lightning_cache, node)
    /\ fusion_archive' = IF node.tier = "fusion"
                         THEN PutNode(fusion_archive, node) ELSE fusion_archive
    /\ semantic_tree' = IF node.tier = "tree"
                        THEN StoreInSemanticTree(semantic_tree, node, links)
                        ELSE semantic_tree

\* lines 99-105 of store: the node written to the store of its tier
StoreWrites(node, links) ==
    /\ lightning_cache' = IF node.tier = "lightning"
                          THEN PutNode(lightning_cache, node) ELSE lightning_cache
    /\ fusion_archive' = IF node.tier = "fusion"
                         THEN PutNode(fusion_archive, node) ELSE fusion_archive
    /\ semantic_tree' = IF node.tier = "tree"
                        THEN StoreInSemanticTree(semantic_tree, node, links)
                        ELSE semantic_tree

\* an attribute of a stored node object is assigned
SetNodeAttr(mem_id, field, value) ==
    /\ lightning_cache' = IF mem_id \in DOMAIN lightning_cache
          THEN [lightning_cache EXCEPT ![mem_id][field] = value] ELSE lightning_cache
    /\ fusion_archive' = IF mem_id \in DOMAIN fusion_archive
          THEN [fusion_archive EXCEPT ![mem_id][field] = value] ELSE fusion_archive
    /\ semantic_tree' = IF mem_id \in DOMAIN semantic_tree.nodes
          THEN [semantic_tree EXCEPT !.nodes[mem_id][field] = value] ELSE semantic_tree

\* the node object with this id
NodeOf(mem_id) == TierStore(GetMemoryById(mem_id)[1])[mem_id]

ingestOnlyVars == <<ingestion_queue, queue_state, lock, wpc, wlocal>>

EngineInit ==
    /\ semantic_tree = [nodes |-> <<>>, edges |-> {}]
    /\ request_log = <<>>
    /\ rpc = [t \in Callers |-> "idle"]
    /\ rlocal = [t \in Callers |-> None]
    /\ active_instances = <<>>
    /\ inst_ctr = 0
    /\ inst_call = [t \in Callers |->
                        [pc |-> "idle", instance |-> 0, memory_slice |-> {},
                         collapse_id |-> 0,
                         results |-> None, ret |-> None, result_id |-> 0]]

\* request_memory, lines 191-195: the request is logged, not yet granted
RMLog(t, reqs) ==
    /\ rpc[t] = "idle"
    /\ \E req \in reqs :
         /\ request_log' = (IF Len(request_log) = RequestLogMaxLen
                            THEN Tail(request_log) ELSE request_log)
                           \o <<[caller |-> t, timestamp |-> clock,
                                 request |-> req, granted |-> FALSE]>>
         /\ rlocal' = [rlocal EXCEPT ![t] =
                [request |-> req, access_result |-> None, memory |-> 0,
                 now |-> 0, response |-> None]]
    /\ rpc' = [rpc EXCEPT ![t] = "evaluate"]
    /\ UNCHANGED <<lightning_cache, fusion_archive, uuid_ctr, semantic_tree,
                   active_instances, inst_ctr, inst_call>>
    /\ UNCHANGED <<ingestOnlyVars, auditVars, vaultVars, loopVars, storeVars>>

\* lines 198-201 and 221-230: the policy is evaluated; a denied request gets
\* its response at once
RMEvaluate(t) ==
    /\ rpc[t] = "evaluate"
    /\ LET access_result == AccessPolicyEvaluate(rlocal[t].request, clock) IN
         IF access_result.granted
         THEN /\ rlocal' = [rlocal EXCEPT ![t].access_result = Some(access_result)]
              /\ rpc' = [rpc EXCEPT ![t] = "retrieve"]
         ELSE /\ rlocal' = [rlocal EXCEPT
                   ![t].access_result = Some(access_result),
                   ![t].response = Some(
                       [content |-> None,
                        metadata |-> [reason |-> access_result.rejection_reason],
                        access_granted |-> FALSE,
                        scope_limits |-> Some(EmptyDict),
                        degradation |-> 0])]
              /\ rpc' = [rpc EXCEPT ![t] = "update_log"]
    /\ UNCHANGED <<lightning_cache, fusion_archive, uuid_ctr, semantic_tree,
                   request_log, active_instances, inst_ctr, inst_call>>
    /\ UNCHANGED <<ingestOnlyVars, auditVars, vaultVars, loopVars, storeVars>>

\* the response copies the trust score where the degradation belongs
GrantedResponseTrust(memory, access_result) ==
    [content |-> memory.content,
     metadata |-> [id |-> memory.id, tier |-> memory.tier,
                   trust_score |-> memory.trust_score],
     access_granted |-> TRUE,
     scope_limits |-> access_result.scope_limits,
     degradation |-> memory.trust_score]

\* lines 207-217: the response to a granted request
GrantedResponse(memory, access_result) ==
    [content |-> memory.content,
     metadata |-> [id |-> memory.id, tier |-> memory.tier,
                   trust_score |-> memory.trust_score],
     access_granted |-> TRUE,
     scope_limits |-> access_result.scope_limits,
     degradation |-> memory.degradation_rate]

\* lines 202-217: the memory is retrieved and the response built; with no node
\* to retrieve the call ends with the exception
RMRetrieve(t) ==
    /\ rpc[t] = "retrieve"
    /\ LET found == RetrieveMemory(rlocal[t].request.requested_tier,
                                   rlocal[t].request.context) IN
         IF found = {}
         THEN /\ rpc' = [rpc EXCEPT ![t] = "raised"]
              /\ UNCHANGED rlocal
         ELSE \E m \in found :
              /\ rlocal' = [rlocal EXCEPT
                   ![t].memory = m,
                   ![t].response = Some(GrantedResponse(
                       TierStore(rlocal[t].request.requested_tier)[m],
                       rlocal[t].access_result[1]))]
              /\ rpc' = [rpc EXCEPT ![t] = "read_clock"]
    /\ UNCHANGED <<lightning_cache, fusion_archive, uuid_ctr, semantic_tree,
                   request_log, active_instances, inst_ctr, inst_call>>
    /\ UNCHANGED <<ingestOnlyVars, auditVars, vaultVars, loopVars, storeVars>>

\* line 220, right-hand side: datetime.utcnow()
RMReadClock(t) ==
    /\ rpc[t] = "read_clock"
    /\ rlocal' = [rlocal EXCEPT ![t].now = clock]
    /\ rpc' = [rpc EXCEPT ![t] = "touch"]
    /\ UNCHANGED <<lightning_cache, fusion_archive, uuid_ctr, semantic_tree,
                   request_log, active_instances, inst_ctr, inst_call>>
    /\ UNCHANGED <<ingestOnlyVars, auditVars, vaultVars, loopVars, storeVars>>

\* line 220, assignment: memory.last_accessed = <the time read>
TouchNode(mem_id, now) == SetNodeAttr(mem_id, "last_accessed", now)

RMTouch(t) ==
    /\ rpc[t] = "touch"
    /\ TouchNode(rlocal[t].memory, rlocal[t].now)
    /\ rpc' = [rpc EXCEPT ![t] = "update_log"]
    /\ UNCHANGED <<uuid_ctr, request_log, rlocal, active_instances, inst_ctr, inst_call>>
    /\ UNCHANGED <<ingestOnlyVars, auditVars, vaultVars, loopVars, storeVars>>

\* line 233: self.request_log[-1]['granted'] = response.access_granted;
\* line 235: the response is returned
RMUpdateLog(t) ==
    /\ rpc[t] = "update_log"
    /\ request_log' = [request_log EXCEPT
           ![Len(request_log)].granted = rlocal[t].response[1].access_granted]
    /\ rpc' = [rpc EXCEPT ![t] = "returned"]
    /\ UNCHANGED <<lightning_cache, fusion_archive, uuid_ctr, semantic_tree,
                   rlocal, active_instances, inst_ctr, inst_call>>
    /\ UNCHANGED <<ingestOnlyVars, auditVars, vaultVars, loopVars, storeVars>>

\* the statements of one request_memory call by caller t
RMStep(t) ==
    \/ RMEvaluate(t)
    \/ RMRetrieve(t)
    \/ RMReadClock(t)
    \/ RMTouch(t)
    \/ RMUpdateLog(t)

\* =====================================================================
\*  SovereignMemory: instance management
\* =====================================================================
Blueprints     == {"bp"}
ResultPayloads == {[len |-> 20]}
ResultTrust    == 900
\* ids that uuid4 never handed out
UnknownMemId    == 0
UnknownInstance == 0

\* the memory_slice lists a caller may pass, known by the ids they hold
MemorySlices ==
    (SUBSET (DOMAIN lightning_cache \cup DOMAIN fusion_archive
             \cup DOMAIN semantic_tree.nodes)) \cup {{UnknownMemId}}

\* the new view replaces the dict
PutViewOnly(instances, instance_id, view) == [k \in {instance_id} |-> view]

\* lines 244-250: self.active_instances[instance_id] = {...}
PutView(instances, instance_id, view) ==
    [k \in DOMAIN instances \cup {instance_id} |->
        IF k = instance_id THEN view ELSE instances[k]]

\* the instance is read and left in the dict
PopInstanceKeep(instances, instance_id) == instances

\* line 260: self.active_instances.pop(instance_id), the dict that remains
PopInstance(instances, instance_id) ==
    [k \in DOMAIN instances \ {instance_id} |-> instances[k]]

\* lines 270-273: result_id is appended to the dependencies of every node of
\* the slice that _get_memory_by_id finds
AppendDependency(store, memory_slice, result_id) ==
    [k \in DOMAIN store |->
        IF k \in memory_slice
        THEN [store[k] EXCEPT !.dependencies = Append(@, result_id)]
        ELSE store[k]]

\* spawn_instance(blueprint_id, memory_slice): lines 238-252
SpawnInstance(t) ==
    /\ inst_call[t].pc = "idle"
    /\ lock = 0
    /\ \E blueprint_id \in Blueprints, memory_slice \in MemorySlices :
         /\ active_instances' = PutView(active_instances, inst_ctr + 1,
               [blueprint |-> blueprint_id, memory_slice |-> memory_slice,
                created |-> clock, last_activity |-> clock, status |-> "active"])
         /\ inst_call' = [inst_call EXCEPT ![t].pc = "spawned",
                                           ![t].instance = inst_ctr + 1,
                                           ![t].memory_slice = memory_slice]
    /\ inst_ctr' = inst_ctr + 1
    /\ UNCHANGED <<lightning_cache, fusion_archive, uuid_ctr, semantic_tree,
                   request_log, rpc, rlocal>>
    /\ UNCHANGED <<ingestOnlyVars, auditVars, vaultVars, loopVars, storeVars>>

\* collapse_instance(instance_id, results) is called: the thread is at line 257
CollapseCall(t) ==
    /\ inst_call[t].pc = "spawned"
    /\ \E instance_id \in (1..inst_ctr) \cup {UnknownInstance},
          results \in ResultPayloads :
         inst_call' = [inst_call EXCEPT ![t].pc = "at_lock",
                                        ![t].collapse_id = instance_id,
                                        ![t].results = Some(results)]
    /\ UNCHANGED <<lightning_cache, fusion_archive, uuid_ctr, semantic_tree,
                   request_log, rpc, rlocal, active_instances, inst_ctr>>
    /\ UNCHANGED <<ingestOnlyVars, auditVars, vaultVars, loopVars, storeVars>>

\* lines 257-275: the body of collapse_instance, run holding self.lock
CollapseInstance(t) ==
    /\ inst_call[t].pc = "at_lock"
    /\ lock = 0
    /\ LET instance_id == inst_call[t].collapse_id IN
         IF instance_id \notin DOMAIN active_instances
         THEN /\ inst_call' = [inst_call EXCEPT ![t].pc = "done",
                                                ![t].ret = Some(FALSE)]
              /\ UNCHANGED <<active_instances, lightning_cache, fusion_archive,
                             semantic_tree, uuid_ctr>>
         ELSE LET instance  == active_instances[instance_id]
                  result_id == uuid_ctr + 1
                  node      == MemoryNode(result_id, inst_call[t].results[1],
                                          "lightning", ResultTrust, clock)
              IN /\ active_instances' = PopInstance(active_instances, instance_id)
                 /\ uuid_ctr' = result_id
                 /\ lightning_cache' = AppendDependency(
                        PutNode(lightning_cache, node), instance.memory_slice, result_id)
                 /\ fusion_archive' = AppendDependency(
                        fusion_archive, instance.memory_slice, result_id)
                 /\ semantic_tree' = [semantic_tree EXCEPT !.nodes =
                        AppendDependency(@, instance.memory_slice, result_id)]
                 /\ inst_call' = [inst_call EXCEPT ![t].pc = "done",
                                                   ![t].ret = Some(TRUE),
                                                   ![t].result_id = result_id]
    /\ UNCHANGED <<request_log, rpc, rlocal, inst_ctr>>
    /\ UNCHANGED <<ingestOnlyVars, auditVars, vaultVars, loopVars, storeVars>>

\* =====================================================================
\*  FusionVault: the anchors table
\* =====================================================================
MaxAnchors == 2     \* anchor calls in one run

VaultIds    == {"a", "b"}
VaultBodies == {"x", "y"}
VaultTimes  == {1, 2}
\* the data dicts a caller may anchor
VaultData == [id : VaultIds, body : VaultBodies, timestamp : VaultTimes]

\* FusionVault._hash_data: line 50
HashData(data) == sha256(<<"json", data>>)

\* FusionVault._build_merkle_proof: line 53
BuildMerkleProof(current_hash, previous_hash) ==
    sha256(<<previous_hash, "|", current_hash>>)

\* the previous_hash arguments: omitted, a hash of the table, or a foreign one
PreviousHashes ==
    {None, HashData([id |-> "z", body |-> "x", timestamp |-> 1])}
        \cup {anchors[k].content_hash : k \in DOMAIN anchors}

\* INSERT OR REPLACE: a row with the same id is overwritten
InsertOrReplace(table, id, row) ==
    [ok |-> TRUE,
     table |-> [k \in DOMAIN table \cup {id} |-> IF k = id THEN row ELSE table[k]]]

\* lines 40-45: INSERT INTO anchors inside "with self.conn"; id is the
\* PRIMARY KEY, so a second row with the same id raises IntegrityError and
\* the transaction is rolled back
Insert(table, id, row) ==
    IF id \in DOMAIN table
    THEN [ok |-> FALSE, table |-> table]
    ELSE [ok |-> TRUE,
          table |-> [k \in DOMAIN table \cup {id} |-> IF k = id THEN row ELSE table[k]]]

VaultInit ==
    /\ anchors = <<>>
    /\ vault_call = [n |-> 0, data |-> None, previous_hash |-> None,
                     outcome |-> "none", ret |-> None]

\* anchor(data, previous_hash): lines 34-47
\* the rowid SQLite gives a new row: one more than the largest in the table
NextRowid(table) ==
    IF DOMAIN table = {} THEN 1
    ELSE (CHOOSE r \in {table[k].rowid : k \in DOMAIN table} :
             \A k \in DOMAIN table : table[k].rowid <= r) + 1

Anchor ==
    /\ vault_call.n < MaxAnchors
    /\ \E data \in VaultData, previous_hash \in PreviousHashes :
         LET content_hash == HashData(data)
             versions     == <<content_hash>>
             merkle_proof == BuildMerkleProof(content_hash, previous_hash)
             result == Insert(anchors, data.id,
                         [rowid |-> NextRowid(anchors),
                          content_hash |-> content_hash, versions |-> versions,
                          merkle_proof |-> merkle_proof,
                          created |-> data.timestamp, modified |-> data.timestamp])
         IN /\ anchors' = result.table
            /\ vault_call' = [n |-> vault_call.n + 1, data |-> Some(data),
                              previous_hash |-> previous_hash,
                              outcome |-> IF result.ok THEN "returned"
                                          ELSE "IntegrityError",
                              ret |-> IF result.ok THEN Some(content_hash) ELSE None]
    /\ UNCHANGED <<auditVars, ingestVars, engineVars, loopVars, storeVars>>

\* =====================================================================
\*  LightningStore: the priority heap in Redis and its decay thread
\* =====================================================================
MaxPushes == 2      \* push calls in one run
MaxGets   == 2      \* get calls in one run
MaxDecays == 2      \* decay cycles in one run

\* scores are counted in units of 1/20^MaxDecays, so that every product
\* with 0.95 the run can form is a whole number of units
ScoreUnit  == 20 ^ MaxDecays
Priorities == {0 - ScoreUnit, 0, ScoreUnit}
AnchorIds  == {"a", "b"}
IdRank     == ("a" :> 1) @@ ("b" :> 2)
LightningData == {"d"}

\* LightningConfig.capacity, configured small
LightningCapacity == 1
\* the factor of line 62, in hundredths
DecayFactor == 95

\* HSET / ZADD: the field is added or overwritten
HSet(h, field, value) ==
    [k \in DOMAIN h \cup {field} |-> IF k = field THEN value ELSE h[k]]

\* ZRANGE key 0 -1: the members by ascending score, ties by member
RECURSIVE ZRange(_)
ZRange(h) ==
    IF DOMAIN h = {} THEN <<>>
    ELSE LET m == CHOOSE k \in DOMAIN h : \A j \in DOMAIN h :
                      \/ h[k] < h[j]
                      \/ h[k] = h[j] /\ IdRank[k] <= IdRank[j]
         IN <<m>> \o ZRange([k \in DOMAIN h \ {m} |-> h[k]])

\* line 62: float(zscore) * 0.95
DecayedScore(zscore) == (zscore * DecayFactor) \div 100

\* LightningStore.access_count(anchor_id): the count kept in the meta hash
AccessCount(anchor_id) ==
    IF anchor_id \in DOMAIN redis.meta THEN redis.meta[anchor_id].access_count ELSE 0

\* the threads that call push and get
LightningClients == {"c1", "c2"}

\* LightningStore.__init__, lines 20-28: the decay thread is created, not
\* started; Redis holds nothing; no client is inside a call
LightningInit ==
    /\ redis = [heap |-> <<>>, data |-> <<>>, meta |-> <<>>]
    /\ decay = [started |-> FALSE, alive |-> FALSE, pc |-> "new",
                members |-> <<>>, idx |-> 0, decayed_score |-> 0,
                ticks |-> 0, error |-> None, start_error |-> None]
    /\ lclient = [pc |-> [t \in LightningClients |-> "idle"],
                  args |-> [t \in LightningClients |-> None],
                  pushes |-> 0, gets |-> 0]

\* push(anchor_id, data, priority), line 32: ZADD lightning:heap
PushZadd(t) ==
    /\ lclient.pc[t] = "idle"
    /\ lclient.pushes < MaxPushes
    /\ \E anchor_id \in AnchorIds, data \in LightningData, priority \in Priorities :
         /\ redis' = [redis EXCEPT !.heap = HSet(@, anchor_id, priority)]
         /\ lclient' = [lclient EXCEPT
                !.pc[t] = "push_data",
                !.args[t] = [anchor_id |-> anchor_id, data |-> data],
                !.pushes = @ + 1]
    /\ UNCHANGED decay
    /\ UNCHANGED <<pending_anchors, sandbox_out, script, extraVars>>
    /\ UNCHANGED <<auditVars, ingestVars, engineVars, vaultVars, storeVars>>

\* line 33: HSET lightning:data
PushHsetData(t) ==
    /\ lclient.pc[t] = "push_data"
    /\ redis' = [redis EXCEPT
           !.data = HSet(@, lclient.args[t].anchor_id, lclient.args[t].data)]
    /\ lclient' = [lclient EXCEPT !.pc[t] = "push_meta"]
    /\ UNCHANGED decay
    /\ UNCHANGED <<pending_anchors, sandbox_out, script, extraVars>>
    /\ UNCHANGED <<auditVars, ingestVars, engineVars, vaultVars, storeVars>>

\* lines 34-38: HSET lightning:meta; push returns
PushHsetMeta(t) ==
    /\ lclient.pc[t] = "push_meta"
    /\ redis' = [redis EXCEPT
           !.meta = HSet(@, lclient.args[t].anchor_id,
                         [created |-> clock, last_accessed |-> clock,
                          access_count |-> 1])]
    /\ lclient' = [lclient EXCEPT !.pc[t] = "idle", !.args[t] = None]
    /\ UNCHANGED decay
    /\ UNCHANGED <<pending_anchors, sandbox_out, script, extraVars>>
    /\ UNCHANGED <<auditVars, ingestVars, engineVars, vaultVars, storeVars>>

\* get(anchor_id), lines 42-43: HGET lightning:data; None is returned for an
\* entry that is not found
GetHgetData(t) ==
    /\ lclient.pc[t] = "idle"
    /\ lclient.gets < MaxGets
    /\ \E anchor_id \in AnchorIds :
         lclient' = IF anchor_id \in DOMAIN redis.data
                    THEN [lclient EXCEPT
                            !.pc[t] = "get_count",
                            !.args[t] = [anchor_id |-> anchor_id, access_count |-> 0],
                            !.gets = @ + 1]
                    ELSE [lclient EXCEPT !.gets = @ + 1]
    /\ UNCHANGED <<redis, decay>>
    /\ UNCHANGED <<pending_anchors, sandbox_out, script, extraVars>>
    /\ UNCHANGED <<auditVars, ingestVars, engineVars, vaultVars, storeVars>>

\* line 46: self.access_count(anchor_id), the count read from the meta hash
GetAccessCount(t) ==
    /\ lclient.pc[t] = "get_count"
    /\ lclient' = [lclient EXCEPT
           !.pc[t] = "get_write",
           !.args[t].access_count = AccessCount(lclient.args[t].anchor_id)]
    /\ UNCHANGED <<redis, decay>>
    /\ UNCHANGED <<pending_anchors, sandbox_out, script, extraVars>>
    /\ UNCHANGED <<auditVars, ingestVars, engineVars, vaultVars, storeVars>>

\* lines 44-48: HSET lightning:meta with a dict of last_accessed and
\* access_count alone, the count being the one read before plus one
GetWrite(t) ==
    /\ lclient.pc[t] = "get_write"
    /\ redis' = [redis EXCEPT
           !.meta = HSet(@, lclient.args[t].anchor_id,
                         [last_accessed |-> clock,
                          access_count |-> lclient.args[t].access_count + 1])]
    /\ lclient' = [lclient EXCEPT !.pc[t] = "idle", !.args[t] = None]
    /\ UNCHANGED decay
    /\ UNCHANGED <<pending_anchors, sandbox_out, script, extraVars>>
    /\ UNCHANGED <<auditVars, ingestVars, engineVars, vaultVars, storeVars>>

\* start(), lines 65-66: decay_thread.start(); a thread that was started
\* before raises RuntimeError
LightningStart ==
    /\ decay.start_error = None
    /\ decay' = IF ~decay.started
                THEN [decay EXCEPT !.started = TRUE, !.alive = TRUE, !.pc = "while"]
                ELSE [decay EXCEPT !.start_error = Some("RuntimeError")]
    /\ UNCHANGED <<redis, lclient>>
    /\ UNCHANGED <<pending_anchors, sandbox_out, script, extraVars>>
    /\ UNCHANGED <<auditVars, ingestVars, engineVars, vaultVars, storeVars>>

\* _run_decay line 53: the decay thread finds self.running true and enters
\* _apply_decay
DecayWhile ==
    /\ decay.alive
    /\ decay.pc = "while"
    /\ loops.running
    /\ decay.ticks < MaxDecays
    /\ decay' = [decay EXCEPT !.pc = "zrange"]
    /\ UNCHANGED <<redis, lclient>>
    /\ UNCHANGED <<pending_anchors, sandbox_out, script, extraVars>>
    /\ UNCHANGED <<auditVars, ingestVars, engineVars, vaultVars, storeVars>>

\* line 59: ZRANGE lightning:heap 0 -1, the members the pass will visit
DecayZRange ==
    /\ decay.alive
    /\ decay.pc = "zrange"
    /\ LET members == ZRange(redis.heap) IN
         decay' = [decay EXCEPT !.members = members, !.idx = 1,
                                !.pc = IF members = <<>> THEN "sleep" ELSE "read"]
    /\ UNCHANGED <<redis, lclient>>
    /\ UNCHANGED <<pending_anchors, sandbox_out, script, extraVars>>
    /\ UNCHANGED <<auditVars, ingestVars, engineVars, vaultVars, storeVars>>

\* lines 60-61 for the member at hand: HGET lightning:meta, whose answer
\* None makes json.loads raise TypeError and whose dict without "created"
\* raises KeyError; nothing catches either, the thread ends
DecayHgetMeta ==
    /\ decay.alive
    /\ decay.pc = "read"
    /\ LET anchor_id == decay.members[decay.idx] IN
         decay' = IF anchor_id \notin DOMAIN redis.meta
                  THEN [decay EXCEPT !.alive = FALSE, !.pc = "crashed",
                                     !.error = Some("TypeError")]
                  ELSE IF "created" \notin DOMAIN redis.meta[anchor_id]
                  THEN [decay EXCEPT !.alive = FALSE, !.pc = "crashed",
                                     !.error = Some("KeyError")]
                  ELSE [decay EXCEPT !.pc = "zscore"]
    /\ UNCHANGED <<redis, lclient>>
    /\ UNCHANGED <<pending_anchors, sandbox_out, script, extraVars>>
    /\ UNCHANGED <<auditVars, ingestVars, engineVars, vaultVars, storeVars>>

\* line 62: ZSCORE lightning:heap for the member, and the product with 0.95
DecayZScore ==
    /\ decay.alive
    /\ decay.pc = "zscore"
    /\ decay' = [decay EXCEPT !.pc = "write",
           !.decayed_score = DecayedScore(redis.heap[decay.members[decay.idx]])]
    /\ UNCHANGED <<redis, lclient>>
    /\ UNCHANGED <<pending_anchors, sandbox_out, script, extraVars>>
    /\ UNCHANGED <<auditVars, ingestVars, engineVars, vaultVars, storeVars>>

\* line 63: ZADD lightning:heap with the decayed score; on to the next
\* member, or to the sleep of line 55 after the last
DecayWrite ==
    /\ decay.alive
    /\ decay.pc = "write"
    /\ redis' = [redis EXCEPT
           !.heap = HSet(@, decay.members[decay.idx], decay.decayed_score)]
    /\ decay' = [decay EXCEPT
           !.idx = @ + 1,
           !.pc = IF decay.idx = Len(decay.members) THEN "sleep" ELSE "read"]
    /\ UNCHANGED lclient
    /\ UNCHANGED <<pending_anchors, sandbox_out, script, extraVars>>
    /\ UNCHANGED <<auditVars, ingestVars, engineVars, vaultVars, storeVars>>

\* line 55: time.sleep(decay_interval) is over, the pass is complete
DecaySleep ==
    /\ decay.alive
    /\ decay.pc = "sleep"
    /\ decay' = [decay EXCEPT !.pc = "while", !.ticks = @ + 1,
                              !.members = <<>>, !.idx = 0, !.decayed_score = 0]
    /\ UNCHANGED <<redis, lclient>>
    /\ UNCHANGED <<pending_anchors, sandbox_out, script, extraVars>>
    /\ UNCHANGED <<auditVars, ingestVars, engineVars, vaultVars, storeVars>>

\* line 53: the decay thread finds self.running false and leaves the loop
DecayExit ==
    /\ decay.alive
    /\ decay.pc = "while"
    /\ ~loops.running
    /\ decay' = [decay EXCEPT !.alive = FALSE, !.pc = "ended"]
    /\ UNCHANGED <<redis, lclient>>
    /\ UNCHANGED <<pending_anchors, sandbox_out, script, extraVars>>
    /\ UNCHANGED <<auditVars, ingestVars, engineVars, vaultVars, storeVars>>

\* =====================================================================
\*  DecaySandbox: the pending anchors and their analysis
\* =====================================================================
MaxPending == 2     \* anchors waiting in pending_anchors
MaxCycles  == 2     \* analyze_anchors calls in one run

\* thresholds of the analysis, similarities in thousandths
SimilarityThreshold == 700
ConflictMean        == 0 - 300
ReinforceCount      == 3

SandboxIds   == {"x", "y"}
\* the anchors handed to add_expired_anchor
\* the content of the anchor with this id
Content(id) == <<"content", id>>
ExpiredAnchors ==
    {[id |-> id, content |-> Content(id)] : id \in SandboxIds} \cup [id : SandboxIds]

\* a live entry, known by its id and by the cosine similarity of its
\* context vector to the vector of the expired anchor
Live(id, sim) == [id |-> id, sim |-> sim]

\* what lightning.get_recent may return for an expired anchor: the related
\* live entries, or a failure of the embedding collaborator
LiveChoices ==
    {[ok |-> FALSE, entries |-> <<>>],
     [ok |-> TRUE, entries |-> <<>>],
     [ok |-> TRUE, entries |-> <<Live("l1", 0 - 1000)>>],
     [ok |-> TRUE, entries |-> <<Live("l1", 0 - 1000), Live("l2", 0 - 1000),
                                 Live("l3", 0 - 400)>>],
     [ok |-> TRUE, entries |-> <<Live("l1", 700), Live("l2", 1000)>>],
     [ok |-> TRUE, entries |-> <<Live("l1", 700), Live("l2", 700), Live("l3", 0)>>],
     [ok |-> TRUE, entries |-> <<Live("l1", 700), Live("l2", 700), Live("l3", 1000)>>]}

\* lines 15-19: the dict that add_expired_anchor keeps of an anchor
PendingOf(anchor) ==
    [content |-> anchor.content,
     decay_reason |-> IF "decay_reason" \in DOMAIN anchor
                      THEN anchor.decay_reason ELSE "time",
     context_vector |-> "vec"]

RECURSIVE SumSims(_)
SumSims(live_data) ==
    IF live_data = <<>> THEN 0
    ELSE Head(live_data).sim + SumSims(Tail(live_data))

\* _has_conflict, lines 52-57: np.mean(similarities) < -0.3; the mean of no
\* similarities is nan, and nan < -0.3 is False
HasConflict(expired, live_data) ==
    /\ Len(live_data) > 0
    /\ SumSims(live_data) < ConflictMean * Len(live_data)

\* _has_reinforcement, lines 59-61
HasReinforcement(expired, live_data) == Len(live_data) >= ReinforceCount

\* DecaySandbox._revise_anchor(expired, live_data): the anchor re-admitted
\* for the expired one, depending on it
ReviseAnchor(expired, live_data) ==
    [content |-> expired.content,
     dependencies |-> IF "id" \in DOMAIN expired THEN <<expired.id>> ELSE <<>>,
     reinforced_by |-> [p \in 1..Len(live_data) |-> live_data[p].id]]

\* lines 26-42: the loop of analyze_anchors from entry p on; acc holds the
\* two lists built so far. An exception ends the loop where it is raised.
RECURSIVE AnalyzeFrom(_, _, _, _)
AnalyzeFrom(p, pending, live, acc) ==
    IF p > Len(pending) THEN [acc EXCEPT !.outcome = "returned"]
    ELSE LET expired   == pending[p]
             live_data == live[p].entries
         IN IF ~live[p].ok
            THEN [acc EXCEPT !.outcome = "CollaboratorError"]
            ELSE IF HasConflict(expired, live_data)
            THEN IF "id" \notin DOMAIN expired
                 THEN [acc EXCEPT !.outcome = "KeyError"]
                 ELSE AnalyzeFrom(p + 1, pending, live,
                        [acc EXCEPT !.processed = p, !.entropy_logs = Append(@,
                           [anchor_id |-> expired.id,
                            conflict_with |-> [q \in 1..Len(live_data) |-> live_data[q].id],
                            resolution |-> "contradiction"])])
            ELSE IF HasReinforcement(expired, live_data)
            THEN AnalyzeFrom(p + 1, pending, live,
                   [acc EXCEPT !.processed = p,
                               !.new_anchors = Append(@, ReviseAnchor(expired, live_data))])
            ELSE AnalyzeFrom(p + 1, pending, live, [acc EXCEPT !.processed = p])

SandboxInit ==
    /\ pending_anchors = <<>>
    /\ sandbox_out = [n |-> 0, outcome |-> "none", batch |-> <<>>, ids |-> <<>>,
                      live |-> <<>>, processed |-> 0,
                      new_anchors |-> <<>>, entropy_logs |-> <<>>]

\* add_expired_anchor(anchor): lines 13-19; an anchor without content
\* raises KeyError and nothing is appended
AddExpiredAnchor ==
    /\ Len(pending_anchors) < MaxPending
    /\ \E anchor \in ExpiredAnchors :
         /\ pending_anchors' = IF "content" \in DOMAIN anchor
                               THEN Append(pending_anchors, PendingOf(anchor))
                               ELSE pending_anchors
         /\ sandbox_out' = IF "content" \in DOMAIN anchor
                           THEN [sandbox_out EXCEPT !.ids = Append(@, anchor.id)]
                           ELSE sandbox_out
    /\ UNCHANGED <<redis, decay, lclient, script, extraVars>>
    /\ UNCHANGED <<auditVars, ingestVars, engineVars, vaultVars, storeVars>>

\* analyze_anchors without the clear of line 44
AnalyzeAnchorsNoClear ==
    /\ sandbox_out.n < MaxCycles
    /\ \E live \in [1..Len(pending_anchors) -> LiveChoices] :
         LET result == AnalyzeFrom(1, pending_anchors, live,
                          [outcome |-> "running", processed |-> 0,
                           new_anchors |-> <<>>, entropy_logs |-> <<>>])
             returned == result.outcome = "returned"
         IN /\ sandbox_out' =
                  [n |-> sandbox_out.n + 1, outcome |-> result.outcome,
                   batch |-> sandbox_out.ids,
                   ids |-> sandbox_out.ids,
                   live |-> live, processed |-> result.processed,
                   new_anchors |-> IF returned THEN result.new_anchors ELSE <<>>,
                   entropy_logs |-> IF returned THEN result.entropy_logs ELSE <<>>]
            /\ pending_anchors' = pending_anchors
    /\ UNCHANGED <<redis, decay, lclient, script, extraVars>>
    /\ UNCHANGED <<auditVars, ingestVars, engineVars, vaultVars, storeVars>>

\* analyze_anchors(): lines 21-45; pending_anchors is cleared only when
\* the loop ran to its end
AnalyzeAnchors ==
    /\ sandbox_out.n < MaxCycles
    /\ \E live \in [1..Len(pending_anchors) -> LiveChoices] :
         LET result == AnalyzeFrom(1, pending_anchors, live,
                          [outcome |-> "running", processed |-> 0,
                           new_anchors |-> <<>>, entropy_logs |-> <<>>])
             returned == result.outcome = "returned"
         IN /\ sandbox_out' =
                  [n |-> sandbox_out.n + 1, outcome |-> result.outcome,
                   batch |-> sandbox_out.ids,
                   ids |-> IF returned THEN <<>> ELSE sandbox_out.ids,
                   live |-> live, processed |-> result.processed,
                   new_anchors |-> IF returned THEN result.new_anchors ELSE <<>>,
                   entropy_logs |-> IF returned THEN result.entropy_logs ELSE <<>>]
            /\ pending_anchors' = IF returned THEN <<>> ELSE pending_anchors
    /\ UNCHANGED <<redis, decay, lclient, script, extraVars>>
    /\ UNCHANGED <<auditVars, ingestVars, engineVars, vaultVars, storeVars>>

\* =====================================================================
\*  MemoryOrchestrator: the stress test of the fusion store
\* =====================================================================
MaxPasses == 2      \* stress-test passes in one run

\* fusion.graph.nodes: the entries of the immutable store
FusionGraphNodes == DOMAIN anchors

\* fusion.get_anchor(node): the entry as an anchor
GetAnchor(node) == [id |-> node, content |-> Content(node)]

\* fusion.graph.remove_node(node)
RemoveNode(table, node) == [k \in DOMAIN table \ {node} |-> table[k]]

\* _stress_test_fusion, lines 14-20. The nodes are visited in the order they
\* were added; a node found stale is handed to the sandbox and removed, and
\* the removal ends the iteration (RuntimeError: the collection changed size
\* while it was iterated), so a call removes the first stale node only.
StressTestFusion ==
    /\ orch.passes < MaxPasses
    /\ Len(pending_anchors) < MaxPending
    /\ \E stale \in SUBSET FusionGraphNodes :
         /\ orch' = [passes |-> orch.passes + 1, stale |-> stale]
         /\ IF stale = {}
            THEN UNCHANGED <<anchors, pending_anchors, sandbox_out>>
            ELSE LET node == CHOOSE k \in stale :
                                 \A j \in stale : anchors[k].rowid <= anchors[j].rowid
                     anchor == GetAnchor(node)
                 IN /\ pending_anchors' = Append(pending_anchors, PendingOf(anchor))
                    /\ sandbox_out' = [sandbox_out EXCEPT !.ids = Append(@, anchor.id)]
                    /\ anchors' = RemoveNode(anchors, node)
    /\ UNCHANGED <<vault_call, redis, decay, lclient, script, loops, kg, lsb, fb>>
    /\ UNCHANGED <<auditVars, ingestVars, engineVars, storeVars>>

\* =====================================================================
\*  learning_loop.py: one decay cycle of the learning loop
\* =====================================================================
MaxContradictions == 11   \* contradicting anchors among the expired of a cycle

EntropyAlertThreshold == 10

\* the parameters process_batch takes besides self
ProcessBatchArity == 0

\* DecaySandbox.process_batch of the learning loop: a call with the wrong
\* number of arguments raises TypeError before the body runs; the body
\* works on current_batch, which is empty in a sandbox just constructed
ProcessBatch(args) ==
    IF Len(args) # ProcessBatchArity
    THEN [raised |-> TRUE, learnable |-> <<>>, entropy |-> <<>>]
    ELSE [raised |-> FALSE, learnable |-> <<>>, entropy |-> <<>>]

ScriptInit == script = [pc |-> "start", contradictions |-> 0, alerts |-> 0]

\* lines 16-21: get the expired anchors, process them, alert on mass entropy
LearningLoopScript ==
    /\ script.pc = "start"
    /\ \E contradictions \in 0..MaxContradictions :
         LET expired_anchors == [p \in 1..contradictions |-> "contradicting"]
             call == ProcessBatch(<<expired_anchors>>)
         IN script' = IF call.raised
                      THEN [pc |-> "TypeError", contradictions |-> contradictions,
                            alerts |-> 0]
                      ELSE [pc |-> "done", contradictions |-> contradictions,
                            alerts |-> IF Len(call.entropy) > EntropyAlertThreshold
                                       THEN 1 ELSE 0]
    /\ UNCHANGED <<redis, decay, lclient, pending_anchors, sandbox_out, extraVars>>
    /\ UNCHANGED <<auditVars, ingestVars, engineVars, vaultVars, storeVars>>

\* =====================================================================
\*  The background loops: the decay thread of LightningStore and
\*  SovereignMemory.monitor_and_heal
\* =====================================================================
MaxHeals == 2     \* turns of the loop of monitor_and_heal in one run

\* LightningStore.__init__ line 27: running = True; nobody has called stop
LoopsInit == loops = [running |-> TRUE, stop |-> "none", heals |-> 0]

\* stop(), line 69: self.running = False
StopRequest ==
    /\ loops.stop = "none"
    /\ loops' = [loops EXCEPT !.running = FALSE, !.stop = "joining"]
    /\ UNCHANGED <<redis, decay, lclient, pending_anchors, sandbox_out, script, kg, lsb, fb, orch>>
    /\ UNCHANGED <<auditVars, ingestVars, engineVars, vaultVars, storeVars>>

\* stop(), line 70: decay_thread.join() raises RuntimeError for a thread
\* that was never started, and returns once a started thread has ended
StopReturn ==
    /\ loops.stop = "joining"
    /\ decay.started => ~decay.alive
    /\ loops' = [loops EXCEPT !.stop = IF decay.started THEN "returned"
                                       ELSE "RuntimeError"]
    /\ UNCHANGED <<redis, decay, lclient, pending_anchors, sandbox_out, script, kg, lsb, fb, orch>>
    /\ UNCHANGED <<auditVars, ingestVars, engineVars, vaultVars, storeVars>>

\* one turn of the loop of monitor_and_heal, lines 280-294: "while True"
\* looks at no flag; find_degraded returns {} so the for loop does nothing;
\* then the thread waits an hour on an Event that nobody can set
MonitorAndHeal ==
    /\ loops.heals < MaxHeals
    /\ LET degraded == FindDegraded IN
         /\ loops' = [loops EXCEPT !.heals = @ + 1]
         /\ UNCHANGED <<lightning_cache, fusion_archive, semantic_tree>>
    /\ UNCHANGED <<redis, decay, lclient, pending_anchors, sandbox_out, script, kg, lsb, fb, orch>>
    /\ UNCHANGED <<ingestion_queue, queue_state, lock, wpc, wlocal, uuid_ctr>>
    /\ UNCHANGED <<request_log, rpc, rlocal, active_instances, inst_ctr, inst_call>>
    /\ UNCHANGED <<auditVars, vaultVars, storeVars>>

\* =====================================================================
\*  KnowledgeGraph (knowledge.py): nodes and labelled edges
\* =====================================================================
KgIds     == {"n01", "n02", "n03"}
Relations == {"supports", "refutes"}

\* nx.DiGraph(): no node, no edge
KgInit == kg = [nodes |-> <<>>, edges |-> <<>>]

\* graph.has_node(n)
HasNode(graph, n) == n \in DOMAIN graph.nodes

\* add_node(chunk), lines 27-28: the attributes of a node already there are
\* overwritten, its edges stay
KgAddNode ==
    /\ \E id \in KgIds :
         kg' = [kg EXCEPT !.nodes = HSet(@, id, [id |-> id, content |-> "c"])]
    /\ UNCHANGED <<redis, decay, lclient, pending_anchors, sandbox_out, script, loops, lsb, fb, orch>>
    /\ UNCHANGED <<auditVars, ingestVars, engineVars, vaultVars, storeVars>>

\* add_edge(source, target, relation), lines 30-32: the edge is added when
\* both ends are nodes of the graph; an edge already there gets the relation
KgAddEdge ==
    /\ \E source \in KgIds, target \in KgIds, relation \in Relations :
         kg' = IF HasNode(kg, source) /\ HasNode(kg, target)
               THEN [kg EXCEPT !.edges = HSet(@, <<source, target>>, relation)]
               ELSE kg
    /\ UNCHANGED <<redis, decay, lclient, pending_anchors, sandbox_out, script, loops, lsb, fb, orch>>
    /\ UNCHANGED <<auditVars, ingestVars, engineVars, vaultVars, storeVars>>

\* =====================================================================
\*  DecaySandbox of the learning loop (decay_sandbox.py)
\* =====================================================================
MaxBatches == 2     \* process_batch runs in one run
MaxBatchLen == 2    \* anchors waiting in current_batch

\* DEFAULT_CONFIG, lines 36-41, similarities in thousandths
ReinforceThreshold == 750
EntropyThreshold   == 250
\* loop_controller.py, lines 3-6: the loads and the thresholds of
\* dynamic_threshold_adjustment
HighLoad           == 1000
LowLoad            == 200
SelectiveThreshold == 850
LearningThreshold  == 700
\* the configurations a sandbox is constructed with; a config dict may
\* lack the key batch_size, as the one of learning_loop.py lines 8-12 does
ContextWindows == {0, 1, 2}
BatchSizes     == {2}
\* what is passed as event_logger: an object with the methods log and
\* log_error that lines 149, 157 and 169 call, or a callable, as the
\* annotation of line 57 says and as learning_loop.py line 7 passes
EventLoggers   == {"object", "callable"}

LoopAnchorIds == {"p", "q"}
\* the vectors the embedding model may give an anchor
Embeddings == {"e1", "e2", "e3"}

\* _cosine_similarity, lines 73-78, of the vectors the embedding model gives
CosineSimilarity(vec_a, vec_b) ==
    IF vec_a = vec_b THEN 1000
    ELSE IF {vec_a, vec_b} = {"e1", "e2"} THEN 750
    ELSE IF {vec_a, vec_b} = {"e2", "e3"} THEN 250
    ELSE 0

\* seq[-n:] of Python for n >= 0: the last n items, and for n = 0 the slice
\* [-0:], which is [0:], the whole list
LastN(seq, n) ==
    IF n = 0 \/ Len(seq) <= n THEN seq ELSE SubSeq(seq, Len(seq) - n + 1, Len(seq))

\* line 110: max(similarities) if similarities else 0.0
MaxSim(embedding, context_vectors) ==
    IF context_vectors = <<>> THEN 0
    ELSE LET sims == {CosineSimilarity(embedding, context_vectors[p]) :
                         p \in 1..Len(context_vectors)}
         IN CHOOSE m \in sims : \A x \in sims : x <= m

\* lines 114-125: the decision for an anchor, as SandboxDecision.value;
\* reinforce_threshold is self.config['reinforce_threshold']
Decide(max_sim, reinforce_threshold) ==
    IF max_sim > reinforce_threshold THEN "learnable"
    ELSE IF max_sim < EntropyThreshold THEN "entropy_logs"
    ELSE "no_action"

\* lines 97-103: the batch as ContextAnchors
Processed(batch, embeddings) ==
    [p \in 1..Len(batch) |-> [id |-> batch[p].id, embedding |-> embeddings[p],
                              metadata |-> batch[p]]]

\* the event that _log_entropy_event writes, lines 157-162
EntropyEvent(anchor) ==
    [event |-> "entropy_flagged", anchor_id |-> anchor.id,
     decision |-> "", similarity |-> 0]

\* the event that _log_decision writes, lines 169-178
DecisionEvent(anchor, decision, max_sim) ==
    [event |-> "sandbox_decision", anchor_id |-> anchor.id,
     decision |-> decision, similarity |-> max_sim]

\* lines 108-127: the loop over the processed anchors from p on. raises is
\* the set of anchors for which the call of learning_loop (line 142) raises:
\* the except clause of line 147 names LearningLoopError, which is defined
\* nowhere, so the exception becomes a NameError that nothing catches.
\* self.event_logger.log of a callable raises AttributeError (lines 157,
\* 169). An exception ends process_batch where it is raised.
RECURSIVE DecideFrom(_, _, _, _, _, _, _)
DecideFrom(p, processed, context_vectors, reinforce_threshold, event_logger, raises, acc) ==
    IF p > Len(processed) THEN [acc EXCEPT !.outcome = "returned"]
    ELSE LET anchor   == processed[p]
             max_sim  == MaxSim(anchor.embedding, context_vectors)
             decision == Decide(max_sim, reinforce_threshold)
             learnable == IF decision = "learnable"
                          THEN Append(acc.learnable, anchor.metadata)
                          ELSE acc.learnable
             entropy_logs == IF decision = "entropy_logs"
                             THEN Append(acc.entropy_logs, anchor.metadata)
                             ELSE acc.entropy_logs
         IN IF decision = "learnable" /\ p \in raises
            THEN [acc EXCEPT !.outcome = "NameError", !.learnable = learnable]
            ELSE IF event_logger = "callable"
            THEN [acc EXCEPT !.outcome = "AttributeError",
                             !.learnable = learnable,
                             !.entropy_logs = entropy_logs]
            ELSE DecideFrom(p + 1, processed, context_vectors, reinforce_threshold,
                   event_logger, raises,
                   [acc EXCEPT
                      !.learnable = learnable,
                      !.entropy_logs = entropy_logs,
                      !.events = @ \o (IF decision = "entropy_logs"
                                       THEN <<EntropyEvent(anchor)>> ELSE <<>>)
                                   \o <<DecisionEvent(anchor, decision, max_sim)>>])

\* process_batch(), lines 91-137, as the state after it: the call returns
\* the two lists after lines 130-135 have moved the batch into the buffer,
\* or it ends with the exception, the buffer and the batch as they were
ProcessBatchOf(sb, embeddings, raises) ==
    LET processed == Processed(sb.current_batch, embeddings)
        context_vectors ==
            [p \in 1..Len(LastN(sb.context_buffer, sb.context_window)) |->
                LastN(sb.context_buffer, sb.context_window)[p].embedding]
        result == DecideFrom(1, processed, context_vectors, sb.reinforce_threshold,
                     sb.event_logger, raises,
                     [outcome |-> "running", learnable |-> <<>>,
                      entropy_logs |-> <<>>, events |-> <<>>])
        returned == result.outcome = "returned"
    IN [sb EXCEPT
          !.context_buffer = IF returned
                             THEN LastN(sb.context_buffer \o processed,
                                        sb.context_window * 2)
                             ELSE @,
          !.current_batch = IF returned THEN <<>> ELSE @,
          !.calls = @ + 1,
          !.last = [outcome |-> result.outcome,
                    batch |-> sb.current_batch, processed |-> processed,
                    context |-> sb.context_buffer,
                    reinforce_threshold |-> sb.reinforce_threshold,
                    learnable |-> IF returned THEN result.learnable ELSE <<>>,
                    entropy_logs |-> IF returned THEN result.entropy_logs ELSE <<>>,
                    events |-> result.events]]

NoBatch == [outcome |-> "none", batch |-> <<>>, processed |-> <<>>, context |-> <<>>,
            reinforce_threshold |-> 0,
            learnable |-> <<>>, entropy_logs |-> <<>>, events |-> <<>>]

LsbInit ==
    lsb = [made |-> FALSE, context_window |-> 0, batch_size |-> None,
           reinforce_threshold |-> 0, event_logger |-> "object",
           context_buffer |-> <<>>,
           current_batch |-> <<>>, calls |-> 0, ingest |-> "none",
           last |-> NoBatch]

\* DecaySandbox(learning_loop, event_logger, config): lines 55-67
LsbConstruct ==
    /\ ~lsb.made
    /\ \E w \in ContextWindows, b \in {Some(n) : n \in BatchSizes} \cup {None},
          logger \in EventLoggers :
         lsb' = [lsb EXCEPT !.made = TRUE, !.context_window = w, !.batch_size = b,
                            !.reinforce_threshold = ReinforceThreshold,
                            !.event_logger = logger]
    /\ UNCHANGED <<redis, decay, lclient, pending_anchors, sandbox_out, script, loops, kg, fb, orch>>
    /\ UNCHANGED <<auditVars, ingestVars, engineVars, vaultVars, storeVars>>

\* ingest_anchors(anchors), lines 80-89: within half a second of the last
\* processing the call is dropped; otherwise the anchors join the batch,
\* and a full batch is processed at once. A config without batch_size
\* raises KeyError at line 88, the anchors already in the batch; an
\* exception of process_batch ends the call as well.
LsbIngestAnchors ==
    /\ lsb.made
    /\ lsb.calls < MaxBatches
    /\ Len(lsb.current_batch) < MaxBatchLen
    /\ \E id \in LoopAnchorIds, rate_limited \in BOOLEAN :
         LET extended == [lsb EXCEPT !.current_batch = Append(@, [id |-> id])] IN
           IF rate_limited THEN lsb' = [lsb EXCEPT !.ingest = "dropped"]
           ELSE IF lsb.batch_size = None
           THEN lsb' = [extended EXCEPT !.ingest = "KeyError"]
           ELSE IF Len(extended.current_batch) >= lsb.batch_size[1]
           THEN \E embeddings \in [1..Len(extended.current_batch) -> Embeddings],
                   raises \in SUBSET (1..Len(extended.current_batch)) :
                   LET after == ProcessBatchOf(extended, embeddings, raises) IN
                     lsb' = [after EXCEPT !.ingest = after.last.outcome]
           ELSE lsb' = [extended EXCEPT !.ingest = "returned"]
    /\ UNCHANGED <<redis, decay, lclient, pending_anchors, sandbox_out, script, loops, kg, fb, orch>>
    /\ UNCHANGED <<auditVars, ingestVars, engineVars, vaultVars, storeVars>>

\* dynamic_threshold_adjustment(sandbox), loop_controller.py lines 1-6: the
\* reinforce threshold of the configuration follows the load of the batch
LsbDynamicThresholdAdjustment ==
    /\ lsb.made
    /\ LET current_load == Len(lsb.current_batch) IN
         lsb' = IF current_load > HighLoad
                THEN [lsb EXCEPT !.reinforce_threshold = SelectiveThreshold]
                ELSE IF current_load < LowLoad
                THEN [lsb EXCEPT !.reinforce_threshold = LearningThreshold]
                ELSE lsb
    /\ UNCHANGED <<redis, decay, lclient, pending_anchors, sandbox_out, script, loops, kg, fb, orch>>
    /\ UNCHANGED <<auditVars, ingestVars, engineVars, vaultVars, storeVars>>

\* process_batch(), called directly
LsbProcessBatch ==
    /\ lsb.made
    /\ lsb.calls < MaxBatches
    /\ \E embeddings \in [1..Len(lsb.current_batch) -> Embeddings],
          raises \in SUBSET (1..Len(lsb.current_batch)) :
         lsb' = ProcessBatchOf(lsb, embeddings, raises)
    /\ UNCHANGED <<redis, decay, lclient, pending_anchors, sandbox_out, script, loops, kg, fb, orch>>
    /\ UNCHANGED <<auditVars, ingestVars, engineVars, vaultVars, storeVars>>

\* =====================================================================
\*  FeedbackLogger (feedback_log.py): callers of log_feedback and of
\*  periodic_flush
\* =====================================================================
MaxFeedback == 2     \* calls a thread makes in one run

FeedbackActions == {"reinforce", "ethical_violation", "system_failure"}
\* line 79: the actions that flush at once
FlushesAtOnce(action) == action \in {"ethical_violation", "system_failure"}

\* FeedbackLogger.__init__, lines 56-61; the lock is a threading.Lock, free
FbInit ==
    fb = [buffer |-> <<>>, lock |-> 0, emitted |-> <<>>,
          pc |-> [t \in Callers |-> "idle"],
          entry |-> [t \in Callers |-> None],
          in_log |-> [t \in Callers |-> FALSE],
          calls |-> [t \in Callers |-> 0]]

\* log_feedback, lines 66-73: the entry is built
FbLogBegin(t) ==
    /\ fb.pc[t] = "idle"
    /\ fb.calls[t] < MaxFeedback
    /\ \E action \in FeedbackActions :
         fb' = [fb EXCEPT !.pc[t] = "log_at_lock",
                          !.entry[t] = Some([anchor_id |-> t, action |-> action,
                                             n |-> fb.calls[t] + 1]),
                          !.in_log[t] = TRUE,
                          !.calls[t] = @ + 1]
    /\ UNCHANGED <<redis, decay, lclient, pending_anchors, sandbox_out, script, loops, kg, lsb, orch>>
    /\ UNCHANGED <<auditVars, ingestVars, engineVars, vaultVars, storeVars>>

\* line 75: with self._lock
FbLogAcquire(t) ==
    /\ fb.pc[t] = "log_at_lock"
    /\ fb.lock = 0
    /\ fb' = [fb EXCEPT !.lock = t, !.pc[t] = "log_append"]
    /\ UNCHANGED <<redis, decay, lclient, pending_anchors, sandbox_out, script, loops, kg, lsb, orch>>
    /\ UNCHANGED <<auditVars, ingestVars, engineVars, vaultVars, storeVars>>

\* lines 76-80: the entry is buffered; a flushing action calls _flush_buffer
FbLogAppend(t) ==
    /\ fb.pc[t] = "log_append"
    /\ fb' = [fb EXCEPT !.buffer = Append(@, fb.entry[t][1]),
                        !.pc[t] = IF FlushesAtOnce(fb.entry[t][1].action)
                                  THEN "flush_at_lock" ELSE "log_release"]
    /\ UNCHANGED <<redis, decay, lclient, pending_anchors, sandbox_out, script, loops, kg, lsb, orch>>
    /\ UNCHANGED <<auditVars, ingestVars, engineVars, vaultVars, storeVars>>

\* the end of the with block of line 75, and the return
FbLogRelease(t) ==
    /\ fb.pc[t] = "log_release"
    /\ fb' = [fb EXCEPT !.lock = 0, !.pc[t] = "idle", !.in_log[t] = FALSE,
                        !.entry[t] = None]
    /\ UNCHANGED <<redis, decay, lclient, pending_anchors, sandbox_out, script, loops, kg, lsb, orch>>
    /\ UNCHANGED <<auditVars, ingestVars, engineVars, vaultVars, storeVars>>

\* periodic_flush, lines 115-117
FbPeriodicFlush(t) ==
    /\ fb.pc[t] = "idle"
    /\ fb.calls[t] < MaxFeedback
    /\ fb' = [fb EXCEPT !.pc[t] = "flush_at_lock", !.calls[t] = @ + 1]
    /\ UNCHANGED <<redis, decay, lclient, pending_anchors, sandbox_out, script, loops, kg, lsb, orch>>
    /\ UNCHANGED <<auditVars, ingestVars, engineVars, vaultVars, storeVars>>

\* _flush_buffer, line 83: with self._lock; a threading.Lock is not
\* reentrant, the thread that holds it waits like any other
FbFlushAcquire(t) ==
    /\ fb.pc[t] = "flush_at_lock"
    /\ fb.lock = 0
    /\ fb' = [fb EXCEPT !.lock = t, !.pc[t] = "flush"]
    /\ UNCHANGED <<redis, decay, lclient, pending_anchors, sandbox_out, script, loops, kg, lsb, orch>>
    /\ UNCHANGED <<auditVars, ingestVars, engineVars, vaultVars, storeVars>>

\* lines 84-89: every buffered entry is emitted, the buffer cleared
FbFlush(t) ==
    /\ fb.pc[t] = "flush"
    /\ fb' = [fb EXCEPT !.emitted = @ \o fb.buffer, !.buffer = <<>>,
                        !.pc[t] = "flush_release"]
    /\ UNCHANGED <<redis, decay, lclient, pending_anchors, sandbox_out, script, loops, kg, lsb, orch>>
    /\ UNCHANGED <<auditVars, ingestVars, engineVars, vaultVars, storeVars>>

\* the end of the with block of line 83: the lock is released and
\* _flush_buffer returns to its caller
FbFlushRelease(t) ==
    /\ fb.pc[t] = "flush_release"
    /\ fb' = [fb EXCEPT !.lock = 0,
                        !.pc[t] = IF fb.in_log[t] THEN "log_release" ELSE "idle"]
    /\ UNCHANGED <<redis, decay, lclient, pending_anchors, sandbox_out, script, loops, kg, lsb, orch>>
    /\ UNCHANGED <<auditVars, ingestVars, engineVars, vaultVars, storeVars>>

ExtraInit ==
    /\ LoopsInit
    /\ KgInit
    /\ LsbInit
    /\ FbInit
    /\ orch = [passes |-> 0, stale |-> {}]

LoopInit ==
    /\ LightningInit
    /\ SandboxInit
    /\ ScriptInit
    /\ ExtraInit

\* =====================================================================
\*  SovereignMemory.store called by concurrent threads, once each
\* =====================================================================
StoreThreadInit ==
    /\ spc = [t \in Callers |-> "idle"]
    /\ slocal = [t \in Callers |-> None]

\* lines 87-97: the id is drawn and the node is built, outside the lock
StoreBegin(t, payloads, tiers, trusts) ==
    /\ spc[t] = "idle"
    /\ \E data \in payloads, tier \in tiers, trust \in trusts :
         slocal' = [slocal EXCEPT ![t] =
                       Some(MemoryNode(uuid_ctr + 1, data, tier, trust, clock))]
    /\ uuid_ctr' = uuid_ctr + 1
    /\ spc' = [spc EXCEPT ![t] = "at_lock"]
    /\ UNCHANGED <<ingestion_queue, queue_state, lock, wpc, wlocal,
                   lightning_cache, fusion_archive>>
    /\ UNCHANGED <<engineVars, auditVars, vaultVars, loopVars>>

\* line 99: with self.lock, the one lock of the SovereignMemory object
StoreAcquire(t) ==
    /\ spc[t] = "at_lock"
    /\ lock = 0
    /\ lock' = t
    /\ spc' = [spc EXCEPT ![t] = "in_lock"]
    /\ UNCHANGED <<ingestion_queue, queue_state, wpc, wlocal,
                   lightning_cache, fusion_archive, uuid_ctr, slocal>>
    /\ UNCHANGED <<engineVars, auditVars, vaultVars, loopVars>>

\* lines 100-105: the node goes into the store of its tier
StoreWrite(t) ==
    /\ spc[t] = "in_lock"
    /\ LET node == slocal[t][1] IN
       \E links \in (IF node.tier = "tree" THEN SUBSET (DOMAIN semantic_tree.nodes)
                     ELSE {{}}) :
          StoreWrites(node, links)
    /\ spc' = [spc EXCEPT ![t] = "written"]
    /\ UNCHANGED <<ingestion_queue, queue_state, lock, wpc, wlocal, uuid_ctr, slocal>>
    /\ UNCHANGED <<request_log, rpc, rlocal, active_instances, inst_ctr, inst_call>>
    /\ UNCHANGED <<auditVars, vaultVars, loopVars>>

\* the end of the with block and line 107: the lock is released, mem_id returned
StoreRelease(t) ==
    /\ spc[t] = "written"
    /\ lock' = 0
    /\ spc' = [spc EXCEPT ![t] = "returned"]
    /\ UNCHANGED <<ingestion_queue, queue_state, wpc, wlocal,
                   lightning_cache, fusion_archive, uuid_ctr, slocal>>
    /\ UNCHANGED <<engineVars, auditVars, vaultVars, loopVars>>

\* thread t is inside no call of the SovereignMemory object
Free(t) ==
    /\ spc[t] \in {"idle", "returned"}
    /\ rpc[t] \in {"idle", "returned", "raised"}
    /\ inst_call[t].pc \in {"idle", "spawned", "done"}

\* the statements of one store call by thread t, after its node is built
StoreSteps(t) == StoreAcquire(t) \/ StoreWrite(t) \/ StoreRelease(t)

Init == AuditInit /\ IngestInit /\ EngineInit /\ VaultInit /\ LoopInit /\ StoreThreadInit

\* ---- sequential audit trail
AuditNext == Tick \/ LogAnchorChange \/ AuditReopen
SpecAudit == Init /\ [][AuditNext]_vars

\* ---- the life of one auditor: its log_anchor_change calls, one after the
\* other, on a log that was empty when the auditor was made
AuditLifeNext == Tick \/ LogAnchorChange
SpecAuditLife == Init /\ [][AuditLifeNext]_vars

\* ---- concurrent audit trail
AuditConcNext == Tick \/ \E t \in Threads : LACBuild(t) \/ LACWrite(t) \/ LACSetHead(t)
SpecAuditConc == Init /\ [][AuditConcNext]_vars

\* ---- ingestion pipeline: callers of ingest and their worker threads
Next ==
    \/ Ingest(RiskCounts, CompatQuarters)
    \/ \E i \in Items : \/ ScanBegin(i)
                        \/ ScanNext(i)
                        \/ Evaluate(i)
                        \/ StoreBuild(i)
                        \/ StoreStep(i)
                        \/ MarkCompleted(i)
                        \/ SetMemoryId(i)
Spec == Init /\ [][Next]_vars

\* ---- the ingestion queue under a producer that goes on calling ingest
\* while the workers of the first items run, all items with one payload.
\* The later calls of the producer fall between the scans of the workers
\* that are followed, not inside them.
QueueNext ==
    \/ Ingest({0}, {4})
    \/ (\A i \in Items : wpc[i] # "scan") /\ IngestLater
    \/ \E i \in Items : \/ ScanBegin(i)
                        \/ ScanNext(i)
                        \/ Evaluate(i)
                        \/ StoreBuild(i)
                        \/ StoreStep(i)
                        \/ MarkCompleted(i)
                        \/ SetMemoryId(i)
SpecQueue == Init /\ [][QueueNext]_vars

\* ---- the memory gate, one caller at a time
GateNext ==
    \/ Tick
    \/ \E t \in Callers :
          \/ /\ \A u \in Callers : Free(u)
             /\ uuid_ctr < MaxStores
             /\ StoreBegin(t, StorePayloads, Tiers, TrustInputs)
          \/ StoreSteps(t)
    \/ (\A u \in Callers : Free(u)) /\ RMLog(1, Requests)
    \/ RMStep(1)
SpecGate == Init /\ [][GateNext]_vars

\* ---- the memory gate, callers running concurrently
GateConcNext ==
    \/ Tick
    \/ \E t \in Callers :
          \/ /\ Free(t)
             /\ uuid_ctr < MaxStores
             /\ StoreBegin(t, {[len |-> 14]}, {"lightning"}, TrustInputs)
          \/ StoreSteps(t)
          \/ Free(t) /\ RMLog(t, ConcRequests)
          \/ RMStep(t)
SpecGateConc == Init /\ [][GateConcNext]_vars

\* ---- instance management: threads that spawn and then collapse
InstNext ==
    \/ \E t \in Callers :
          \/ /\ Free(t)
             /\ uuid_ctr < MaxStores
             /\ StoreBegin(t, {[len |-> 14]}, {"fusion"}, TrustInputs)
          \/ StoreSteps(t)
          \/ Free(t) /\ SpawnInstance(t)
          \/ Free(t) /\ CollapseCall(t)
          \/ CollapseInstance(t)
SpecInst == Init /\ [][InstNext]_vars

\* ---- the lightning store: its callers and its decay thread
LightningNext ==
    \/ \E t \in LightningClients : \/ PushZadd(t)
                                  \/ PushHsetData(t)
                                  \/ PushHsetMeta(t)
                                  \/ GetHgetData(t)
                                  \/ GetAccessCount(t)
                                  \/ GetWrite(t)
    \/ LightningStart
    \/ DecayWhile
    \/ DecayZRange
    \/ DecayHgetMeta
    \/ DecayZScore
    \/ DecayWrite
    \/ DecaySleep
SpecLightning == Init /\ [][LightningNext]_vars

\* ---- the background loops and the stop of the lightning store
LoopsNext ==
    \/ PushZadd("c1") \/ PushHsetData("c1") \/ PushHsetMeta("c1")
    \/ LightningStart
    \/ DecayWhile
    \/ DecayZRange
    \/ DecayHgetMeta
    \/ DecayZScore
    \/ DecayWrite
    \/ DecaySleep
    \/ DecayExit
    \/ StopRequest
    \/ StopReturn
    \/ MonitorAndHeal
SpecLoops == Init /\ [][LoopsNext]_vars

\* ---- the knowledge graph: nodes and edges are added
KgNext == KgAddNode \/ KgAddEdge
SpecKg == Init /\ [][KgNext]_vars

\* ---- the decay sandbox of the learning loop
LsbNext ==
    LsbConstruct \/ LsbIngestAnchors \/ LsbDynamicThresholdAdjustment \/ LsbProcessBatch
SpecLsb == Init /\ [][LsbNext]_vars

\* ---- the feedback logger and its concurrent callers
FbNext ==
    \E t \in Callers : \/ FbLogBegin(t)
                       \/ FbLogAcquire(t)
                       \/ FbLogAppend(t)
                       \/ FbLogRelease(t)
                       \/ FbPeriodicFlush(t)
                       \/ FbFlushAcquire(t)
                       \/ FbFlush(t)
                       \/ FbFlushRelease(t)
SpecFb == Init /\ [][FbNext]_vars

\* ---- the decay sandbox: anchors come in and are analysed
SandboxNext == AddExpiredAnchor \/ AnalyzeAnchors
SpecSandbox == Init /\ [][SandboxNext]_vars

\* ---- the orchestrator over the fusion vault, and the cycle of its
\* learning loop
OrchNext == Anchor \/ StressTestFusion \/ LearningLoopScript
SpecOrch == Init /\ [][OrchNext]_vars

\* ---- concurrent callers of store
StoreConcNext ==
    \E t \in Callers : \/ StoreBegin(t, StorePayloads, Tiers, TrustFloats)
                       \/ StoreAcquire(t)
                       \/ StoreWrite(t)
                       \/ StoreRelease(t)
SpecStoreConc == Init /\ [][StoreConcNext]_vars

\* ---- stored nodes and what happens to them afterwards: concurrent callers
\* of store, and a caller of request_memory that reads what they stored
LifeRequests ==
    {r \in Requests : r.access_type = "read" /\ r.requester = "guest"
                      /\ r.intent = "audit"}
StoreLifeNext ==
    \/ \E t \in Callers : \/ StoreBegin(t, StorePayloads, Tiers, TrustInputs)
                          \/ StoreAcquire(t)
                          \/ StoreWrite(t)
                          \/ StoreRelease(t)
    \/ RMLog(1, LifeRequests)
    \/ RMStep(1)
SpecStoreLife == Init /\ [][StoreLifeNext]_vars

\* ---- the fusion vault, one caller
VaultNext == Anchor
SpecVault == Init /\ [][VaultNext]_vars

\* =====================================================================
\*  Properties of the audit trail
\* =====================================================================
\* recomputing an entry's hash from its recorded fields
RecomputeHash(e) == sha256(EntryStr(e.timestamp, e.action, e.data, e.previous_hash))

\* the chain integrity of section 3, for a list of entries
ChainWellFormed(file) ==
    /\ Len(file) > 0 => file[1].previous_hash = None
    /\ \A n \in 2..Len(file) : file[n].previous_hash = file[n - 1].entry_hash
    /\ \A n \in 1..Len(file) : file[n].entry_hash = RecomputeHash(file[n])

\* C1: after any sequence of sequential log_anchor_change calls the first
\* entry has no predecessor, every later entry's previous_hash is the
\* entry_hash of the entry appended just before it, every stored entry_hash
\* is reproduced from the entry's fields, and verify_chain() returns true.
C1_ChainWellFormed ==
    /\ ChainWellFormed(audit_file)
    /\ verify_chain(audit_file) = TRUE

\* three entries were appended, the clock moving between the first and the
\* last, and each of the later two names the one before it
C1_Witness ==
    /\ Len(audit_file) = 3
    /\ audit_file[1].previous_hash = None
    /\ audit_file[2].previous_hash = audit_file[1].entry_hash
    /\ audit_file[3].previous_hash = audit_file[2].entry_hash
    /\ audit_file[1].timestamp < audit_file[3].timestamp

\* C2: changing the data of any single entry of the log, all other fields
\* untouched, makes verify_chain() return false.
C2_TamperDetected ==
    \A n \in 1..Len(audit_file) : \A d \in AuditData \ {audit_file[n].data} :
        verify_chain([audit_file EXCEPT ![n].data = d]) = FALSE

\* C3: with several threads inside log_anchor_change the log stays a single
\* linear chain: no two entries carry the same previous_hash, and once every
\* call has returned the last written entry's hash is the chain head.
C3_AppendsSerialized ==
    /\ \A m, n \in 1..Len(audit_file) :
          m # n => audit_file[m].previous_hash # audit_file[n].previous_hash
    /\ (Len(audit_file) > 0 /\ \A t \in Threads : apc[t] = "idle")
          => audit_file[Len(audit_file)].entry_hash = last_hash

\* =====================================================================
\*  Properties of the ingestion pipeline
\* =====================================================================
IsFailed(status) == Len(status) = 2 /\ status[1] = "failed"
IsTerminal(status) == status = Completed \/ IsFailed(status)

\* the item with this id, in a queue that holds it
ItemIn(q, id) == q[CHOOSE p \in 1..Len(q) : q[p].id = id]
HasItem(q, id) == \E p \in 1..Len(q) : q[p].id = id
Item(id) == ItemIn(ingestion_queue, id)

\* perf_score = 0.6*(1 - risk_score) + 0.4*compatibility, in thousandths
PerfOf(data) == 600 - 150 * data.kw + 100 * data.cq

AllNodeIds == DOMAIN lightning_cache \cup DOMAIN fusion_archive

\* C4: an item enters the queue queued, and its status only ever moves
\* queued -> processing -> completed or queued -> processing -> failed(reason);
\* a completed or failed status never changes again.
C4_StatusTransitions ==
    [][\A id \in Items :
         HasItem(ingestion_queue', id) =>
           LET new == ItemIn(ingestion_queue', id).status IN
             IF HasItem(ingestion_queue, id)
             THEN LET old == Item(id).status IN
                    \/ new = old
                    \/ old = Queued /\ new = Processing
                    \/ old = Processing /\ (new = Completed \/ IsFailed(new))
             ELSE new = Queued]_vars

C4_Witness ==
    \E a, b \in Ingested :
        /\ wpc[a] = "done" /\ Item(a).status = Completed
        /\ wpc[b] = "done" /\ IsFailed(Item(b).status)

\* C5: every item whose id ingest returned reaches completed or failed; in
\* particular a worker thread that has ended has left its item in a terminal
\* status, since nothing else ever writes the status.
C5_WorkerEndsTerminal ==
    \A i \in Ingested :
        wpc[i] \in {"done", "crashed"} => IsTerminal(Item(i).status)

\* C6: under every interleaving the node of an ingested item lies in the
\* fusion archive exactly when its perf_score is above 0.7 and in the
\* lightning cache otherwise (0.7 included), with trust_score = perf_score.
C6_TierByPerfScore ==
    \A i \in Ingested :
        wlocal[i].mem_id # 0 =>
          LET m    == wlocal[i].mem_id
              perf == PerfOf(Item(i).data)
          IN IF perf > 700
             THEN /\ m \in DOMAIN fusion_archive /\ m \notin DOMAIN lightning_cache
                  /\ fusion_archive[m].tier = "fusion"
                  /\ fusion_archive[m].trust_score = perf
             ELSE /\ m \in DOMAIN lightning_cache /\ m \notin DOMAIN fusion_archive
                  /\ lightning_cache[m].tier = "lightning"
                  /\ lightning_cache[m].trust_score = perf

C6_Witness ==
    \E a, b \in Ingested :
        /\ a < b /\ wlocal[b].mem_id # 0 /\ wlocal[a].mem_id > wlocal[b].mem_id
        /\ PerfOf(Item(a).data) = 700 /\ wlocal[a].mem_id \in DOMAIN lightning_cache
        /\ PerfOf(Item(b).data) = 900 /\ wlocal[b].mem_id \in DOMAIN fusion_archive

\* C7: every completed ingestion has written exactly one node and appended
\* one audit entry, so the audit log never has fewer entries than there are
\* nodes.
C7_MutationsAudited ==
    /\ \A i \in Ingested :
          Item(i).status = Completed =>
            Cardinality({m \in AllNodeIds : m = wlocal[i].mem_id}) = 1
    /\ Len(audit_file) >= Cardinality(AllNodeIds)

\* C8: a payload scoring below 0.3 is flagged low_performance with severity
\* 1 - perf_score (at least 0.5), is tagged _refactored, _anomaly and
\* _original_hash (the hash of the untagged payload), and is committed to the
\* lightning cache and completed; a payload scoring 0.3 or more is committed
\* untagged.
C8_LowPerformanceRefactored ==
    \A i \in Ingested :
        wpc[i] \in {"store", "store_lock", "mark", "setid"} \/ (wpc[i] = "done" /\ wlocal[i].mem_id # 0) =>
          LET d    == Item(i).data
              tagged == "refactored" \in DOMAIN d
              raw  == [kw |-> d.kw, cq |-> d.cq,
                       len |-> IF tagged THEN d.len - RefactorTagLen ELSE d.len]
              perf == PerfOf(d)
              m    == wlocal[i].mem_id
          IN /\ perf < 300 =>
                  /\ wlocal[i].anomaly =
                        Some([type |-> "low_performance", severity |-> 1000 - perf,
                              deprecate_prior |-> None])
                  /\ 1000 - perf >= 500
                  /\ DOMAIN d = {"kw", "cq", "len", "refactored", "anomaly", "original_hash"}
                  /\ d.refactored = TRUE
                  /\ d.anomaly = "low_performance"
                  /\ d.original_hash = sha256(JsonDumps(raw))
                  /\ m # 0 => /\ m \in DOMAIN lightning_cache
                              /\ lightning_cache[m].content = d
                  /\ wpc[i] = "done" => Item(i).status = Completed
             /\ perf >= 300 =>
                  /\ wlocal[i].anomaly = None
                  /\ d = raw
                  /\ m # 0 => \E c \in {lightning_cache, fusion_archive} :
                                 m \in DOMAIN c /\ c[m].content = raw

C8_Witness ==
    \E a, b \in Ingested :
        /\ wpc[a] = "done" /\ Item(a).status = Completed
        /\ PerfOf(Item(a).data) = 100 /\ Item(a).data.refactored = TRUE
        /\ wlocal[a].mem_id \in DOMAIN lightning_cache
        /\ wpc[b] = "done" /\ Item(b).status = Completed
        /\ PerfOf(Item(b).data) = 300 /\ DOMAIN Item(b).data = {"kw", "cq", "len"}

\* C9: in every state a poller can see, a completed item carries the id of
\* a node that exists in a tier store, and an item that is queued,
\* processing or failed carries no node id.
C9_CompletedCarriesNode ==
    \A i \in Ingested :
        IF Item(i).status = Completed
        THEN Item(i).memory_id # 0 /\ Item(i).memory_id \in AllNodeIds
        ELSE Item(i).memory_id = 0

\* C10: an item that is queued or processing can be cancelled, moving it
\* directly to failed(cancelled); and an item that ends failed has left no
\* node in any tier store.
C10_CancellableAtomic ==
    \A i \in Ingested :
        /\ Item(i).status \in {Queued, Processing} =>
              ENABLED (Next /\ ItemIn(ingestion_queue', i).status = Failed("cancelled"))
        /\ IsFailed(Item(i).status) =>
              /\ wlocal[i].mem_id = 0
              /\ Cardinality(AllNodeIds) =
                    Cardinality({j \in Ingested : wlocal[j].mem_id # 0})

\* C11: items ingested concurrently do not interfere: a worker that has ended
\* has left its own item completed or failed, two items that got a node got
\* different node ids, and once every worker has ended there are exactly as
\* many nodes as completed items.
C11_NoInterference ==
    /\ \A i \in Ingested :
          wpc[i] \in {"done", "crashed"} => IsTerminal(Item(i).status)
    /\ \A i, j \in Ingested :
          i # j /\ wlocal[i].mem_id # 0 /\ wlocal[j].mem_id # 0
            => wlocal[i].mem_id # wlocal[j].mem_id
    /\ (\A i \in Ingested : wpc[i] \in {"done", "crashed"}) =>
          Cardinality(AllNodeIds) =
            Cardinality({i \in Ingested : Item(i).status = Completed})

\* =====================================================================
\*  Properties of the memory gate
\* =====================================================================
tierStores == <<lightning_cache, fusion_archive, semantic_tree>>

\* the ids of the nodes of all three tiers
StoredIds ==
    DOMAIN lightning_cache \cup DOMAIN fusion_archive \cup DOMAIN semantic_tree.nodes

\* caller t is inside, or has ended, a call with a write request from a
\* requester that does not satisfy the trust predicate
DeniedWrite(t) ==
    /\ rpc[t] # "idle"
    /\ rlocal[t].request.access_type = "write"
    /\ ~StartsWithTrusted(rlocal[t].request.requester)

\* C12: a write request from a requester without the trusted_ prefix returns
\* access_granted = false with no content and a rejection reason, and no
\* step of the call creates a node or changes a node of any tier.
C12_DeniedWriteRefused ==
    [][\A t \in Callers :
         DeniedWrite(t)' =>
           /\ rpc'[t] # rpc[t] => UNCHANGED <<tierStores, uuid_ctr>>
           /\ rpc'[t] \in {"evaluate", "update_log", "returned"}
           /\ rpc'[t] = "returned" =>
                 LET response == rlocal'[t].response[1] IN
                   /\ response.access_granted = FALSE
                   /\ response.content = None
                   /\ response.metadata.reason = Some("Write access restricted")]_vars

C12_Witness ==
    /\ DeniedWrite(1) /\ rpc[1] = "returned"
    /\ StoredIds # {}
    /\ request_log[1].granted = FALSE

\* the positions of the log entries created for the call of caller t
EntriesOf(t) == {p \in 1..Len(request_log) : request_log[p].caller = t}

\* C13: a call has one log entry from before the policy is evaluated, and
\* when the call returns that entry's granted equals the access_granted
\* returned to the caller, whatever the other callers do.
C13_OutcomeInOwnEntry ==
    \A t \in Callers :
        /\ rpc[t] # "idle" => Cardinality(EntriesOf(t)) = 1
        /\ rpc[t] = "returned" =>
              \A p \in EntriesOf(t) :
                  request_log[p].granted = rlocal[t].response[1].access_granted

\* caller t is inside, or has ended, a call with a read or derive request
ReadOrDerive(t) ==
    /\ rpc[t] # "idle"
    /\ rlocal[t].request.access_type \in {"read", "derive"}

\* C14: the policy grants every read and every derive request, whoever the
\* requester, with valid_until one hour after the time of the evaluation
\* and usage_scope equal to the request's intent; the response that is
\* returned carries these scope limits and the degradation of the node read.
C14_ReadDeriveGranted ==
    [][\A t \in Callers :
         ReadOrDerive(t)' =>
           /\ rpc[t] = "evaluate" /\ rpc'[t] # "evaluate" =>
                 /\ rpc'[t] = "retrieve"
                 /\ rlocal'[t].access_result =
                       Some([granted |-> TRUE, rejection_reason |-> None,
                             scope_limits |->
                               Some([valid_until |-> clock + OneHour,
                                     usage_scope |-> rlocal[t].request.intent])])
           /\ rpc'[t] = "returned" =>
                 LET response == rlocal'[t].response[1]
                     node     == NodeOf(rlocal[t].memory)'
                 IN /\ response.access_granted = TRUE
                    /\ response.scope_limits = rlocal'[t].access_result[1].scope_limits
                    /\ response.degradation = node.degradation_rate
                    /\ response.degradation =
                          CalculateDegradationRate(node.content, node.tier)
                    /\ response.content = node.content
                    /\ node.tier = rlocal'[t].request.requested_tier]_vars

C14_Witness ==
    /\ rpc[1] = "returned"
    /\ rlocal[1].request.access_type = "derive"
    /\ rlocal[1].request.requester = "guest"
    /\ rlocal[1].response[1].access_granted = TRUE
    /\ rlocal[1].response[1].scope_limits =
          Some([valid_until |-> OneHour + 1, usage_scope |-> "personalize"])
    /\ rlocal[1].response[1].degradation = 50000
    /\ clock = MaxClock

\* C15: a step changes a stored node only by a granted read assigning the
\* node's last_accessed, every other field and every other node staying as
\* they are, and the last_accessed of a node never decreases.
C15_ReadTouchesLastAccessed ==
    [][\A m \in StoredIds :
         LET old == NodeOf(m)
             new == NodeOf(m)'
         IN /\ [new EXCEPT !.last_accessed = old.last_accessed] = old
            /\ new.last_accessed # old.last_accessed =>
                  \E t \in Callers :
                      /\ rpc[t] = "touch" /\ rpc'[t] = "update_log"
                      /\ rlocal[t].response[1].access_granted
                      /\ rlocal[t].memory = m
                      /\ new.last_accessed = rlocal[t].now
            /\ new.last_accessed >= old.last_accessed]_vars

\* =====================================================================
\*  Properties of instance management
\* =====================================================================
Range(seq) == {seq[p] : p \in 1..Len(seq)}

\* the threads whose collapse_instance call returned True
Collapsers == {t \in Callers : inst_call[t].ret = Some(TRUE)}

\* the memory_slice that was passed when this instance was spawned
SliceOf(instance_id) ==
    inst_call[CHOOSE s \in Callers : inst_call[s].instance = instance_id].memory_slice

\* C16: after spawn_instance(blueprint, S) over stored nodes S and
\* collapse_instance(id, result) the dependencies of the node created for
\* the result are exactly the borrowed node ids S.
C16_ResultDependsOnSlice ==
    \A t \in Collapsers :
        SliceOf(inst_call[t].collapse_id) \subseteq StoredIds =>
            Range(NodeOf(inst_call[t].result_id).dependencies)
                = SliceOf(inst_call[t].collapse_id)

\* C17: a collapse of an instance id that is unknown or already collapsed
\* returns False, creates no node and changes no dependencies; a collapse
\* of an active instance returns True, removes it and creates one node, so
\* of the threads collapsing the same instance exactly one succeeds; and
\* the active instances are the spawned ones that were not collapsed.
C17_CollapseAtMostOnce ==
    [][/\ \A t \in Callers :
            inst_call[t].pc = "at_lock" /\ inst_call'[t].pc = "done" =>
              LET instance_id == inst_call[t].collapse_id IN
                IF instance_id \in DOMAIN active_instances
                THEN /\ inst_call'[t].ret = Some(TRUE)
                     /\ instance_id \notin DOMAIN active_instances'
                     /\ StoredIds' = StoredIds \cup {inst_call'[t].result_id}
                     /\ inst_call'[t].result_id \notin StoredIds
                ELSE /\ inst_call'[t].ret = Some(FALSE)
                     /\ UNCHANGED <<tierStores, uuid_ctr, active_instances>>
       /\ \A t, u \in Collapsers' :
            t # u => inst_call'[t].collapse_id # inst_call'[u].collapse_id
       /\ Cardinality(DOMAIN lightning_cache') = Cardinality(Collapsers')
       /\ DOMAIN active_instances' =
            (1..inst_ctr') \ {inst_call'[t].collapse_id : t \in Collapsers'}]_vars

C17_Witness ==
    /\ inst_call[1].pc = "done" /\ inst_call[2].pc = "done"
    /\ inst_call[1].collapse_id = 2 /\ inst_call[2].collapse_id = 2
    /\ inst_call[1].ret = Some(TRUE) /\ inst_call[2].ret = Some(FALSE)
    /\ DOMAIN active_instances = {1}
    /\ Cardinality(DOMAIN lightning_cache) = 1

\* C18: spawn_instance adds one active view and nothing else: the tier
\* stores, their nodes and the lock are as before, the views already
\* active stay active, and the slices of two active views may overlap.
C18_SpawnOnlyRegisters ==
    [][inst_ctr' # inst_ctr =>
         /\ UNCHANGED <<tierStores, uuid_ctr, lock>>
         /\ lock = 0
         /\ DOMAIN active_instances' = DOMAIN active_instances \cup {inst_ctr'}
         /\ inst_ctr' \notin DOMAIN active_instances
         /\ \A k \in DOMAIN active_instances :
                active_instances'[k] = active_instances[k]
         /\ active_instances'[inst_ctr'].status = "active"
         /\ \E t \in Callers :
                /\ inst_call[t].pc = "idle" /\ inst_call'[t].instance = inst_ctr'
                /\ active_instances'[inst_ctr'].memory_slice
                      = inst_call'[t].memory_slice]_vars

C18_Witness ==
    /\ DOMAIN active_instances = {1, 2}
    /\ active_instances[1].memory_slice \cap active_instances[2].memory_slice
          \cap StoredIds # {}
    /\ active_instances[1].status = "active"
    /\ active_instances[2].status = "active"

\* =====================================================================
\*  Properties of the fusion vault
\* =====================================================================
\* the step is an anchor call for an id that is already anchored
AnchorsAgain == vault_call'.n # vault_call.n /\ vault_call'.data[1].id \in DOMAIN anchors

\* C19: anchoring an id that is already anchored with content of a different
\* content_hash fails with IntegrityError and leaves the anchored row
\* (content_hash, versions, merkle_proof, timestamps) as it was.
C19_DuplicateIdRejected ==
    [][LET data == vault_call'.data[1] IN
         AnchorsAgain /\ HashData(data) # anchors[data.id].content_hash =>
           /\ vault_call'.outcome = "IntegrityError"
           /\ vault_call'.ret = None
           /\ anchors' = anchors]_vars

C19_Witness ==
    /\ vault_call.outcome = "IntegrityError"
    /\ anchors[vault_call.data[1].id].content_hash # HashData(vault_call.data[1])
    /\ anchors[vault_call.data[1].id].created # vault_call.data[1].timestamp

\* C20: a second anchor call with the same id and the same content returns
\* the content_hash the first call returned and leaves the single row of
\* that id in the table.
C20_ReanchorIdempotent ==
    [][LET data == vault_call'.data[1] IN
         AnchorsAgain /\ HashData(data) = anchors[data.id].content_hash =>
           /\ vault_call'.outcome = "returned"
           /\ vault_call'.ret = Some(anchors[data.id].content_hash)
           /\ anchors' = anchors]_vars

\* the chain head: the content_hash of the most recently anchored entry
ChainHead ==
    IF DOMAIN anchors = {} THEN None
    ELSE anchors[CHOOSE k \in DOMAIN anchors :
                    \A j \in DOMAIN anchors : anchors[j].rowid <= anchors[k].rowid].content_hash

\* C21: an anchor call whose previous_hash is not the chain head fails with
\* ChainBrokenError and stores nothing; a call that succeeds stores
\* merkle_proof = H(previous_hash, content_hash) with content_hash =
\* H(content), and its entry becomes the chain head.
C21_ChainHeadChecked ==
    [][vault_call'.n # vault_call.n =>
         LET data == vault_call'.data[1] IN
           /\ vault_call'.previous_hash # ChainHead =>
                 /\ vault_call'.outcome = "ChainBrokenError"
                 /\ anchors' = anchors
           /\ vault_call'.outcome = "returned" =>
                 /\ anchors'[data.id].content_hash = HashData(data)
                 /\ anchors'[data.id].merkle_proof =
                       BuildMerkleProof(HashData(data), vault_call'.previous_hash)
                 /\ ChainHead' = HashData(data)]_vars

\* =====================================================================
\*  Properties of the lightning store
\* =====================================================================
\* the step is a decay tick
\* the decay thread completes a pass
DecayTick == decay'.ticks # decay.ticks
\* the decay thread writes the decayed priority of an entry
DecayWrites == decay.pc = "write" /\ decay'.pc # "write"

\* C23: a decay tick leaves the priority of every entry, whatever priority
\* push accepted for it (zero and negative ones too), less than or equal to
\* its priority before the tick.
C23_DecayNeverIncreases ==
    [][DecayWrites =>
         \A k \in DOMAIN redis.heap : redis'.heap[k] <= redis.heap[k]]_vars

\* C24: the lightning store never holds more entries than its configured
\* capacity, and a push at capacity evicts the entry of lowest priority
\* before it inserts the new one.
C24_CapacityBounded ==
    [][/\ Cardinality(DOMAIN redis'.heap) <= LightningCapacity
       /\ \A new \in DOMAIN redis'.heap \ DOMAIN redis.heap :
            Cardinality(DOMAIN redis.heap) = LightningCapacity =>
              \E old \in DOMAIN redis.heap :
                  /\ \A j \in DOMAIN redis.heap : redis.heap[old] <= redis.heap[j]
                  /\ DOMAIN redis'.heap = (DOMAIN redis.heap \ {old}) \cup {new}]_vars

\* the lowest priority an entry may keep; there is no floor in the code
DecayFloor == 1

\* C25: a decay tick removes from the heap exactly the entries whose
\* decayed priority is below the floor, and each of them is in the
\* sandbox's pending list afterwards.
C25_EvictedBelowFloor ==
    [][DecayTick =>
         LET below == {k \in Range(decay.members) : redis.heap[k] < DecayFloor}
         IN /\ DOMAIN redis'.heap = DOMAIN redis.heap \ below
            /\ \A k \in below \cap DOMAIN redis.data :
                  \E p \in 1..Len(pending_anchors') :
                      pending_anchors'[p].content = redis.data[k]]_vars


\* C22: an entry of the Immutable tier is never changed and never removed:
\* whatever step is taken, every anchored entry is still there afterwards
\* with the row it had.
C22_ImmutableNeverMutated ==
    [][\A k \in DOMAIN anchors :
           k \in DOMAIN anchors' /\ anchors'[k] = anchors[k]]_vars

\* the anchors of the last analysis, told apart by their ids
DistinctBatch ==
    \A p, q \in 1..Len(sandbox_out.batch) :
        sandbox_out.batch[p] = sandbox_out.batch[q] => p = q
\* the anchor was re-admitted by the last analysis
Readmitted(id) ==
    \E q \in 1..Len(sandbox_out.new_anchors) :
        sandbox_out.new_anchors[q].content = Content(id)
\* the entropy records the last analysis wrote for the anchor
EntropyOf(id) ==
    {q \in 1..Len(sandbox_out.entropy_logs) :
        sandbox_out.entropy_logs[q].anchor_id = id}
\* the live entries whose similarity to the anchor is 0.7 or more
Corroborating(live_data) ==
    {q \in 1..Len(live_data) : live_data[q].sim >= SimilarityThreshold}
\* the mean similarity of the live entries is below -0.3
MeanContradicts(live_data) ==
    /\ Len(live_data) > 0
    /\ SumSims(live_data) < ConflictMean * Len(live_data)

\* C26: an expiring anchor whose mean cosine similarity to the related live
\* entries is below -0.3 gets exactly one entropy record, holding its id, the
\* ids of the live entries and the resolution "contradiction", and it is not
\* re-admitted, however many live entries there are.
C26_ContradictionLogged ==
    (sandbox_out.n > 0 /\ DistinctBatch) =>
        \A p \in 1..Len(sandbox_out.batch) :
            LET id        == sandbox_out.batch[p]
                live_data == sandbox_out.live[p].entries
            IN (sandbox_out.live[p].ok /\ MeanContradicts(live_data)) =>
                 /\ Cardinality(EntropyOf(id)) = 1
                 /\ \A q \in EntropyOf(id) :
                        /\ sandbox_out.entropy_logs[q].conflict_with =
                               [r \in 1..Len(live_data) |-> live_data[r].id]
                        /\ sandbox_out.entropy_logs[q].resolution = "contradiction"
                 /\ ~Readmitted(id)

\* C27: an expiring anchor that is no contradiction is re-admitted exactly
\* when three or more live entries corroborate it (similarity 0.7 or more);
\* the re-admitted node has the expiring one among its dependencies; with
\* fewer than three the anchor is neither re-admitted nor logged.
C27_ReinforcementReadmits ==
    (sandbox_out.n > 0 /\ DistinctBatch) =>
        \A p \in 1..Len(sandbox_out.batch) :
            LET id        == sandbox_out.batch[p]
                live_data == sandbox_out.live[p].entries
            IN (sandbox_out.live[p].ok /\ ~MeanContradicts(live_data)) =>
                 /\ Readmitted(id) <=>
                        Cardinality(Corroborating(live_data)) >= ReinforceCount
                 /\ \A q \in 1..Len(sandbox_out.new_anchors) :
                        sandbox_out.new_anchors[q].content = Content(id) =>
                           id \in Range(sandbox_out.new_anchors[q].dependencies)
                 /\ Cardinality(Corroborating(live_data)) < ReinforceCount =>
                        EntropyOf(id) = {}

\* C28: the cycle of the learning loop raises the alert exactly when the
\* contradictions it found are more than the threshold.
C28_AlertIffAboveThreshold ==
    script.pc # "start" =>
        (script.alerts > 0 <=> script.contradictions > EntropyAlertThreshold)

\* C29: a failure on one entry does not stop the cycle: when an analysis
\* has ended, every entry of its batch was gone through and the call
\* came back.
C29_FailureDoesNotHalt ==
    sandbox_out.n > 0 =>
        /\ sandbox_out.outcome = "returned"
        /\ sandbox_out.processed = Len(sandbox_out.batch)

\* the tier on which the thread is working
TierOf(t) == slocal[t][1].tier

\* C30: every tier store has a lock of its own, so a thread that stores
\* into one tier is never kept waiting by a thread that stores into another:
\* whenever the lock is held for one tier, a thread arriving for a different
\* tier can take its lock.
C30_TiersDoNotBlock ==
    \A a, b \in Callers :
        (lock = a /\ spc[a] \in {"in_lock", "written"} /\ spc[b] = "at_lock"
            /\ TierOf(a) # TierOf(b))
        => ENABLED StoreAcquire(b)

\* the tier stores that hold a node with this id
HoldersOf(mem_id) == {tier \in Tiers : mem_id \in DOMAIN TierStore(tier)}

\* C31: when store has returned an id, one node has that id: the store of
\* the requested tier holds it, no other store does, and its tier field is
\* the requested tier; and no step changes the id or the tier of a stored
\* node, or takes it out of the store that holds it.
C31_StoredInRequestedTier ==
    /\ [](\A t \in Callers :
            spc[t] = "returned" =>
               LET node == slocal[t][1] IN
                 /\ HoldersOf(node.id) = {node.tier}
                 /\ TierStore(node.tier)[node.id].id = node.id
                 /\ TierStore(node.tier)[node.id].tier = node.tier)
    /\ [][\A tier \in Tiers : \A mem_id \in DOMAIN TierStore(tier) :
             /\ mem_id \in DOMAIN TierStore(tier)'
             /\ TierStore(tier)'[mem_id].id = mem_id
             /\ TierStore(tier)'[mem_id].tier = tier]_vars

\* store has returned for two threads with different tiers, and a read has
\* gone over one of the nodes since
C31_Witness ==
    \E a, b \in Callers :
        /\ spc[a] = "returned" /\ spc[b] = "returned"
        /\ slocal[a][1].tier = "tree" /\ slocal[b][1].tier = "fusion"
        /\ rpc[1] = "returned" /\ rlocal[1].memory = slocal[a][1].id

\* C32: the trust_score of every node held in a tier store is within [0,1],
\* whoever wrote the node and whatever trust_score the caller gave.
C32_TrustWithinUnit ==
    \A tier \in Tiers : \A mem_id \in DOMAIN TierStore(tier) :
        /\ TierStore(tier)[mem_id].trust_score >= 0
        /\ TierStore(tier)[mem_id].trust_score <= 1000

\* C33: the background loops can be stopped: once stop has returned, no
\* loop of the engine runs another cycle, neither the decay thread of the
\* Volatile store nor the self-healing monitor.
C33_StoppedLoopsStayStopped ==
    [][loops.stop = "returned" =>
          /\ decay'.ticks = decay.ticks
          /\ loops'.heals = loops.heals]_vars

\* a get call that found its entry writes the metadata and returns
GetCall == \E t \in LightningClients :
               lclient.pc[t] = "get_write" /\ lclient'.pc[t] = "idle"

\* C34: a get that finds the entry sets last_accessed, adds one to
\* access_count and leaves the content, the priority and the created
\* timestamp of every entry as they were, so that a decay tick can still
\* read the metadata of every entry.
C34_GetKeepsEntry ==
    [][GetCall =>
          /\ redis'.data = redis.data
          /\ redis'.heap = redis.heap
          /\ \A k \in DOMAIN redis.meta :
                /\ "created" \in DOMAIN redis.meta[k] =>
                      /\ "created" \in DOMAIN redis'.meta[k]
                      /\ redis'.meta[k].created = redis.meta[k].created
                /\ redis'.meta[k] # redis.meta[k] =>
                      /\ redis'.meta[k].last_accessed = clock
                      /\ redis'.meta[k].access_count = redis.meta[k].access_count + 1]_vars

\* C35: the queue never loses an unfinished item: an item that is in the
\* queue and has not reached completed or failed is still in the queue
\* after any step, however many items are ingested meanwhile.
C35_UnfinishedStaysQueued ==
    [][\A i \in Ingested :
          (HasItem(ingestion_queue, i) /\ ~IsTerminal(Item(i).status))
             => HasItem(ingestion_queue', i)]_vars

\* the outcomes the last analysis returned for the anchor
OutcomesOf(id) ==
    Cardinality({q \in 1..Len(sandbox_out.new_anchors) :
                    sandbox_out.new_anchors[q].content = Content(id)})
    + Cardinality(EntropyOf(id))

\* C36: an analysis that returns gives each pending anchor at most one
\* outcome, an entropy record or a new anchor, and leaves the pending list
\* empty; an analysis that finds nothing pending returns two empty lists.
C36_AnalysedOnce ==
    /\ []((sandbox_out.n > 0 /\ sandbox_out.outcome = "returned") =>
            /\ Len(sandbox_out.new_anchors) + Len(sandbox_out.entropy_logs)
                  <= Len(sandbox_out.batch)
            /\ DistinctBatch =>
                  \A p \in 1..Len(sandbox_out.batch) :
                      OutcomesOf(sandbox_out.batch[p]) <= 1
            /\ sandbox_out.batch = <<>> =>
                  /\ sandbox_out.new_anchors = <<>>
                  /\ sandbox_out.entropy_logs = <<>>)
    /\ [][(sandbox_out'.n # sandbox_out.n /\ sandbox_out'.outcome = "returned")
             => pending_anchors' = <<>>]_vars

\* the second analysis has returned, of two anchors of which one was
\* re-admitted
C36_Witness ==
    /\ sandbox_out.n = 2
    /\ sandbox_out.outcome = "returned"
    /\ Len(sandbox_out.batch) = 2
    /\ DistinctBatch
    /\ Len(sandbox_out.new_anchors) = 1
    /\ pending_anchors = <<>>

\* the entries a step has added to the pending list for the node
AddedFor(node) ==
    {p \in (Len(pending_anchors) + 1)..Len(pending_anchors') :
        pending_anchors'[p].content = Content(node)}

\* C37: a stress-test pass demotes exactly the stale nodes: each node it
\* found stale is added to the pending list once and removed from the
\* store, and each other node stays in the store as it was.
C37_PassDemotesStale ==
    [][orch'.passes # orch.passes =>
          /\ DOMAIN anchors' = DOMAIN anchors \ orch'.stale
          /\ \A k \in DOMAIN anchors \ orch'.stale : anchors'[k] = anchors[k]
          /\ Len(pending_anchors') = Len(pending_anchors) + Cardinality(orch'.stale)
          /\ \A k \in orch'.stale : Cardinality(AddedFor(k)) = 1]_vars

\* C38: the graph index of the Relational tier has no dangling edge and no
\* self-loop: both ends of every edge are nodes of the index and they
\* differ, in the knowledge graph and in the semantic tree alike.
C38_NoDanglingNoSelfLoop ==
    /\ \A edge \in DOMAIN kg.edges :
          /\ HasNode(kg, edge[1])
          /\ HasNode(kg, edge[2])
          /\ edge[1] # edge[2]
    /\ \A edge \in semantic_tree.edges :
          /\ edge[1] \in DOMAIN semantic_tree.nodes
          /\ edge[2] \in DOMAIN semantic_tree.nodes
          /\ edge[1] # edge[2]

\* the sandbox_decision events of the last process_batch
IsDecisionEvent(ev) == ev.event = "sandbox_decision"
DecisionEvents == SelectSeq(lsb.last.events, IsDecisionEvent)

\* the recent context window: the last n anchors of the buffer, none of
\* them for n = 0
RecentWindow(seq, n) ==
    IF Len(seq) <= n THEN seq ELSE SubSeq(seq, Len(seq) - n + 1, Len(seq))

\* the greatest similarity of the p-th anchor of the last batch to the
\* recent context window, 0 when the window is empty
WindowSim(p) ==
    LET window == RecentWindow(lsb.last.context, lsb.context_window)
        sims   == {CosineSimilarity(lsb.last.processed[p].embedding,
                                    window[q].embedding) : q \in 1..Len(window)}
    IN IF sims = {} THEN 0 ELSE CHOOSE m \in sims : \A x \in sims : x <= m

\* the decision the p-th anchor of the last batch is due
DueDecision(p) ==
    IF WindowSim(p) > lsb.last.reinforce_threshold THEN "learnable"
    ELSE IF WindowSim(p) < EntropyThreshold THEN "entropy_logs"
    ELSE "no_action"

\* the anchors of the last batch due this decision, in batch order
IsDue(decision, p) == DueDecision(p) = decision
RECURSIVE DueFrom(_, _)
DueFrom(decision, p) ==
    IF p > Len(lsb.last.batch) THEN <<>>
    ELSE (IF IsDue(decision, p) THEN <<lsb.last.batch[p]>> ELSE <<>>)
         \o DueFrom(decision, p + 1)

\* C39: process_batch gives every anchor of the batch one decision and logs
\* one sandbox_decision event for it: REINFORCE when its greatest similarity
\* to the recent context window is above reinforce_threshold, ENTROPY when
\* it is below entropy_threshold, NEUTRAL otherwise; the two lists returned
\* hold the anchors so decided; afterwards the batch is empty and the
\* context buffer holds at most 2 * context_window anchors.
C39_OneDecisionPerAnchor ==
    /\ [](lsb.calls > 0 =>
            /\ Len(DecisionEvents) = Len(lsb.last.batch)
            /\ \A p \in 1..Len(lsb.last.batch) :
                  /\ DecisionEvents[p].anchor_id = lsb.last.batch[p].id
                  /\ DecisionEvents[p].decision = DueDecision(p)
            /\ lsb.last.learnable = DueFrom("learnable", 1)
            /\ lsb.last.entropy_logs = DueFrom("entropy_logs", 1)
            /\ Len(lsb.context_buffer) <= 2 * lsb.context_window)
    /\ [][lsb'.calls # lsb.calls => lsb'.current_batch = <<>>]_vars

\* the thread waits for the lock of the logger
WaitsForLock(t) == fb.pc[t] \in {"log_at_lock", "flush_at_lock"}

\* C40: log_feedback always returns with the lock released, also for the
\* actions that flush at once, and callers never deadlock: a thread never
\* waits for the lock while it holds the lock itself, so whoever holds
\* the lock can go on and release it.
C40_LogFeedbackReturns ==
    \A t \in Callers : WaitsForLock(t) => fb.lock # t
====
